---- MODULE Spec2Model ----
(***************************************************************************)
(* A model of the LangChainOllama example agents.  Every agent method is   *)
(* one action: its argument and the answers of the external services (the  *)
(* model, the search backends, the database) are drawn from small sets,    *)
(* and the action records which external calls the method made, in order,  *)
(* and what it returned or raised.                                         *)
(*                                                                         *)
(* Text is a sequence of one-character strings.  Thai message texts are    *)
(* written as ASCII identifiers; the comment next to each names the line   *)
(* of the source that holds the text.                                      *)
(***************************************************************************)
EXTENDS Integers, Sequences, FiniteSets, TLC

\* ------------------------------------------------------------------ bounds
\* longest text argument (characters)
MaxTextLen == 2
\* most pieces a web-search query is built from
MaxQueryPieces == 2
\* most pieces an SQL question is built from
MaxQuestionPieces == 2
\* most pieces a fact-check claim is built from
MaxClaimPieces == 2
\* longest list handed to a batch operation
MaxBatch == 2

\* build_graph_from_text and OptimizedSQLAgent.query calls in one run
MaxRequests == 2

VARIABLES
    op,     \* the method called last ("idle" before the first call)
    arg,    \* its argument
    log,    \* the external calls it made, in order, each with its outcome
    ret,    \* what it returned (NoRet when it raised)
    exc,    \* the exception that reached its caller ("none" when it returned)
    max_search_results, \* SimplifiedFactCheckAgent.max_search_results
    vectorstore,  \* self.vectorstore of each RAG agent
    qa_chain,     \* self.qa_chain of each RAG agent
    graph,          \* KnowledgeGraphAgent.graph
    query_history,  \* OptimizedSQLAgent.query_history
    memory,         \* the exchanges saved in OptimizedSQLAgent.memory
    requests,       \* how many build_graph_from_text and query calls were made
    run             \* the frames of a summarize call that is running step by step

callVars == <<op, arg, log, ret, exc>>
\* the fields the agent objects keep between calls
objectVars ==
    <<max_search_results, vectorstore, qa_chain, graph, query_history, memory, requests>>
agentVars == <<objectVars, run>>
vars == <<callVars, agentVars>>

\* ------------------------------------------------------------- Python values
PyStr(s) == [t |-> "str", s |-> s, n |-> 0]
PyInt(n) == [t |-> "int", s |-> <<>>, n |-> n]
PyNone == [t |-> "NoneType", s |-> <<>>, n |-> 0]

isinstance_str(v) == v.t = "str"

\* Python truth value: "" , 0 and None are false
Truthy(v) ==
    CASE v.t = "str" -> v.s # <<>>
      [] v.t = "int" -> v.n # 0
      [] OTHER -> FALSE

\* characters str.strip() removes
Whitespace == {" ", "\n"}

RECURSIVE lstrip(_)
lstrip(s) ==
    IF s # <<>> /\ Head(s) \in Whitespace THEN lstrip(Tail(s)) ELSE s

RECURSIVE rstrip(_)
rstrip(s) ==
    IF s # <<>> /\ s[Len(s)] \in Whitespace
    THEN rstrip(SubSeq(s, 1, Len(s) - 1))
    ELSE s

\* str.strip()
strip(s) == rstrip(lstrip(s))

\* str.lower(), letter by letter
UpperLetters ==
    <<"A", "B", "C", "D", "E", "F", "G", "H", "I", "J", "K", "L", "M",
      "N", "O", "P", "Q", "R", "S", "T", "U", "V", "W", "X", "Y", "Z">>
LowerLetters ==
    <<"a", "b", "c", "d", "e", "f", "g", "h", "i", "j", "k", "l", "m",
      "n", "o", "p", "q", "r", "s", "t", "u", "v", "w", "x", "y", "z">>

LowerChar(c) ==
    IF \E i \in 1..Len(UpperLetters) : UpperLetters[i] = c
    THEN LowerLetters[CHOOSE i \in 1..Len(UpperLetters) : UpperLetters[i] = c]
    ELSE c

lower(s) == [i \in 1..Len(s) |-> LowerChar(s[i])]

\* Python's `p in s` on strings
Contains(s, p) ==
    \E i \in 0..(Len(s) - Len(p)) : SubSeq(s, i + 1, i + Len(p)) = p

\* all sequences over S of length at most n
SeqsUpTo(S, n) == UNION {[1..k -> S] : k \in 0..n}

RECURSIVE Concat(_)
Concat(ss) == IF ss = <<>> THEN <<>> ELSE Head(ss) \o Concat(Tail(ss))

Rep(c, n) == [i \in 1..n |-> c]

\* -------------------------------------------------------- external services
\* An external call returns a value or raises; the exception text is what
\* str(e) gives.
Ok(v) == [ok |-> TRUE, val |-> v, err |-> "none"]
Fail(e) == [ok |-> FALSE, val |-> <<>>, err |-> e]

ServiceErrors == {"ConnectionError"}

\* texts the model answers with
LlmTexts == {<<"o", "k">>, <<>>}
LlmOutcomes == {Ok(t) : t \in LlmTexts} \cup {Fail(e) : e \in ServiceErrors}

Call(svc, input, out) == [svc |-> svc, input |-> input, out |-> out]

NoRet == [kind |-> "none"]
\* a fixed message of the source
Msg(id) == [kind |-> "msg", id |-> id, text |-> <<>>, e |-> "none"]
\* f"<prefix>{e}"
ErrMsg(id, e) == [kind |-> "msg", id |-> id, text |-> <<>>, e |-> e]
\* text passed through from a service
Text(s) == [kind |-> "text", id |-> "", text |-> s, e |-> "none"]

\* text arguments: strings over blank and letter, and non-strings
Texts == SeqsUpTo({" ", "a"}, MaxTextLen)
NonStrings == {PyNone, PyInt(0), PyInt(7)}
TextArgs == {PyStr(s) : s \in Texts} \cup NonStrings

\* ---------------------------------------------------------- BasicLLMPipeline
\* setup_pipeline re-raises when the chain cannot be built, so a constructed
\* pipeline always holds a chain.
chain == TRUE

\* (a plausible slip: the validation forgets .strip())
explain_topic_result_NoStrip(topic, out) ==
    IF ~isinstance_str(topic) \/ topic.s = <<>>
    THEN [log |-> <<>>, ret |-> Msg("TOPIC_EMPTY_OR_INVALID")]
    ELSE [log |-> <<Call("chain.invoke", topic, out)>>,
          ret |-> IF out.ok THEN Text(out.val)
                  ELSE ErrMsg("CANNOT_EXPLAIN_TOPIC", out.err)]

\* BasicLLMPipeline.explain_topic: result, given the model's outcome
explain_topic_result(topic, out) ==
    IF ~isinstance_str(topic) \/ strip(topic.s) = <<>>
    THEN [log |-> <<>>, ret |-> Msg("TOPIC_EMPTY_OR_INVALID")]
    ELSE IF ~chain
    THEN [log |-> <<>>, ret |-> Msg("SYSTEM_NOT_READY")]
    ELSE [log |-> <<Call("chain.invoke", topic, out)>>,
          ret |-> IF out.ok THEN Text(out.val)
                  ELSE ErrMsg("CANNOT_EXPLAIN_TOPIC", out.err)]

explain_topic ==
    /\ op = "idle"
    /\ \E topic \in TextArgs, out \in LlmOutcomes :
        LET r == explain_topic_result(topic, out) IN
        /\ op' = "explain_topic"
        /\ arg' = topic
        /\ log' = r.log
        /\ ret' = r.ret
        /\ exc' = "none"
        /\ UNCHANGED agentVars

\* ------------------------------------------------------------ WebSearchAgent
\* len(result.strip()) > 10, the "basic quality check"
QualityMin == 10

\* the two words strategy 3 removes from the query (Thai for "latest" and
\* "today" in the source; two-letter stand-ins that share no letter)
KwLatest == <<"l", "s">>
KwToday == <<"w", "n">>

\* str.replace(old, ""): every non-overlapping occurrence, left to right
RECURSIVE remove(_, _)
remove(s, old) ==
    IF Len(s) < Len(old) THEN s
    ELSE IF SubSeq(s, 1, Len(old)) = old
    THEN remove(SubSeq(s, Len(old) + 1, Len(s)), old)
    ELSE <<Head(s)>> \o remove(Tail(s), old)

simplified_query(query) == strip(remove(remove(query, KwLatest), KwToday))

QueryPieces == {<<" ">>, <<"a">>, KwLatest, KwToday}
Queries == {Concat(ps) : ps \in SeqsUpTo(QueryPieces, MaxQueryPieces)}
QueryArgs == {PyStr(q) : q \in Queries} \cup NonStrings

\* what a search backend can answer: nothing, blanks, text of 10 and of 11
\* characters, 10 letters around a blank, each also padded with blanks
SearchBodies ==
    {<<>>, Rep("a", QualityMin), Rep("a", QualityMin + 1),
     Rep("a", 5) \o <<" ">> \o Rep("a", 5)}
SearchResults == {Rep(" ", p) \o b \o Rep(" ", p) : p \in {0, 1}, b \in SearchBodies}
SearchOutcomes == {Ok(r) : r \in SearchResults} \cup {Fail(e) : e \in ServiceErrors}

\* `result and len(result.strip()) > 10`
usable(out) == out.ok /\ out.val # <<>> /\ Len(strip(out.val)) > QualityMin

Search(backend, max_results, query, out) ==
    Call("DuckDuckGoSearchRun.run",
         [backend |-> backend, max_results |-> max_results, query |-> query], out)

FinalAnswer(s) == [kind |-> "final", id |-> "", text |-> s, e |-> "none"]
FinalMsg(id) == [kind |-> "final", id |-> id, text |-> <<>>, e |-> "none"]

\* (a plausible slip: the result check of strategy 1 is dropped, so the
\* call goes on to the next backend after a good answer)
search_with_fallback_result_GoesOn(query, o1, o2, o3) ==
    IF ~isinstance_str(query) \/ strip(query.s) = <<>>
    THEN [log |-> <<>>, ret |-> FinalMsg("QUERY_EMPTY_OR_INVALID")]
    ELSE
    LET s1 == Search("api", 5, strip(query.s), o1)
        s2 == Search("html", 3, strip(query.s), o2)
    IN IF usable(o2) THEN [log |-> <<s1, s2>>, ret |-> FinalAnswer(o2.val)]
       ELSE [log |-> <<s1, s2>>, ret |-> FinalMsg("SEARCH_APOLOGY")]

\* WebSearchAgent.search_with_fallback: o1, o2, o3 are the answers the
\* three searches get if they are made
search_with_fallback_result(query, o1, o2, o3) ==
    IF ~isinstance_str(query) \/ strip(query.s) = <<>>
    THEN [log |-> <<>>, ret |-> FinalMsg("QUERY_EMPTY_OR_INVALID")]
    ELSE
    LET s1 == Search("api", 5, strip(query.s), o1)
        s2 == Search("html", 3, strip(query.s), o2)
        simp == simplified_query(query.s)
        s3 == Search("api", 3, simp, o3)
        try3 == simp # <<>> /\ simp # query.s
    IN IF usable(o1) THEN [log |-> <<s1>>, ret |-> FinalAnswer(o1.val)]
       ELSE IF usable(o2) THEN [log |-> <<s1, s2>>, ret |-> FinalAnswer(o2.val)]
       ELSE IF try3 /\ usable(o3)
       THEN [log |-> <<s1, s2, s3>>, ret |-> FinalAnswer(o3.val)]
       ELSE [log |-> IF try3 THEN <<s1, s2, s3>> ELSE <<s1, s2>>,
             ret |-> FinalMsg("SEARCH_APOLOGY")]

search_with_fallback ==
    /\ op = "idle"
    /\ \E query \in QueryArgs, o1, o2, o3 \in SearchOutcomes :
        LET r == search_with_fallback_result(query, o1, o2, o3) IN
        /\ op' = "search_with_fallback"
        /\ arg' = query
        /\ log' = r.log
        /\ ret' = r.ret
        /\ exc' = "none"
        /\ UNCHANGED agentVars

\* --------------------------------------------------------- OptimizedSQLAgent
\* sql_patterns, in declaration order.  The three ASCII keys are spelled
\* out.  The five Thai keys are stored mis-decoded in the file, as text
\* that holds upper-case letters; each is a two-letter stand-in here, with
\* an upper-case letter, and no key is part of another.
sql_patterns ==
    << [pattern |-> <<"S", "h">>, sql |-> "salary_max",
        columns |-> {"name", "salary"}],
       [pattern |-> <<"e", "n", "g", "i", "n", "e", "e", "r", "i", "n", "g">>,
        sql |-> "users_engineering", columns |-> {"name", "salary"}],
       [pattern |-> <<"e", "l", "e", "c", "t", "r", "o", "n", "i", "c", "s">>,
        sql |-> "products_electronics", columns |-> {"name", "price"}],
       [pattern |-> <<"A", "g", " ", "3", "0">>, sql |-> "users_age_over_30",
        columns |-> {"name", "age"}],
       [pattern |-> <<"S", "k">>, sql |-> "stock_min",
        columns |-> {"name", "stock"}],
       [pattern |-> <<"D", "p">>, sql |-> "department_largest",
        columns |-> {"department", "count"}],
       [pattern |-> <<"S", "v">>, sql |-> "salary_avg",
        columns |-> {"avg_salary"}],
       [pattern |-> <<"a", "l", "i", "c", "e">>, sql |-> "orders_of_alice",
        columns |-> {"name", "product_name", "quantity"}] >>

\* questions: built from the keys as written, the ASCII keys capitalised,
\* and filler
QuestionPieces ==
    {sql_patterns[i].pattern : i \in 1..Len(sql_patterns)}
    \cup {<<"E", "n", "g", "i", "n", "e", "e", "r", "i", "n", "g">>,
          <<"A", "l", "i", "c", "e">>, <<"x">>, <<" ">>}
Questions == {Concat(ps) : ps \in SeqsUpTo(QuestionPieces, MaxQuestionPieces)}
QuestionArgs == {PyStr(q) : q \in Questions} \cup NonStrings

\* what pd.read_sql_query gives: a frame of 0, 1 or 2 rows, its values
\* NULL or not, or an exception
DataFrames == [rows : 0..2, null : BOOLEAN]
DbOutcomes == {Ok(df) : df \in DataFrames} \cup {Fail("OperationalError")}

\* what agent_executor.invoke gives
AgentOutcomes == LlmOutcomes

\* the f-string formats with ":," raise TypeError on None
\* (lines 317-349: the answer text, or the exception formatting it raises)
format_answer(columns, df) ==
    IF df.rows = 0 THEN Ok("NOT_FOUND")
    ELSE IF df.rows = 1 /\ Cardinality(columns) = 2
    THEN IF "salary" \in columns
         THEN IF df.null THEN Fail("TypeError") ELSE Ok("ONE_SALARY")
         ELSE IF "price" \in columns
         THEN IF df.null THEN Fail("TypeError") ELSE Ok("ONE_PRICE")
         ELSE IF "age" \in columns THEN Ok("ONE_AGE")
         ELSE IF "stock" \in columns THEN Ok("ONE_STOCK")
         ELSE IF "count" \in columns THEN Ok("ONE_COUNT")
         ELSE Ok("ONE_PAIR")
    ELSE IF "avg_salary" \in columns
    THEN IF df.null THEN Fail("TypeError") ELSE Ok("AVG_SALARY")
    ELSE IF "salary" \in columns
    THEN IF df.null THEN Fail("TypeError") ELSE Ok("MANY_SALARY")
    ELSE IF "price" \in columns
    THEN IF df.null THEN Fail("TypeError") ELSE Ok("MANY_PRICE")
    ELSE IF "age" \in columns THEN Ok("MANY_AGE")
    ELSE Ok("MANY_FIRST_COLUMN")

SqlResult(success, answer, question, method) ==
    [success |-> success, answer |-> answer, question |-> question,
     method |-> method]

\* f"<error prefix>{str(e)}"
SqlError(e) == [kind |-> "error", id |-> "", text |-> <<>>, e |-> e]
SqlAnswer(id) == [kind |-> "answer", id |-> id, text |-> <<>>, e |-> "none"]
\* _clean_answer(response["output"])
CleanedAnswer(t) == [kind |-> "cleaned", id |-> "", text |-> t, e |-> "none"]

\* OptimizedSQLAgent.query_with_agent
query_with_agent_result(question, agentOut) ==
    [log |-> <<Call("agent_executor.invoke", question, agentOut)>>,
     ret |-> IF agentOut.ok
             THEN SqlResult(TRUE, CleanedAnswer(agentOut.val), question, "agent")
             ELSE SqlResult(FALSE, SqlError(agentOut.err), question, "agent")]

\* the keys found in the lower-cased question, as indexes of sql_patterns
matching(question_lower) ==
    {i \in 1..Len(sql_patterns) :
        Contains(question_lower, lower(sql_patterns[i].pattern))}

Min(S) == CHOOSE x \in S : \A y \in S : x <= y
Max(S) == CHOOSE x \in S : \A y \in S : x >= y

\* (a plausible slip: the loop has no break, so the last matching key wins)
first_match_Last(question_lower) ==
    IF matching(question_lower) = {} THEN 0 ELSE Max(matching(question_lower))

\* the loop of lines 305-308: the first matching key in declaration order,
\* 0 when none matches
first_match(question_lower) ==
    IF matching(question_lower) = {} THEN 0 ELSE Min(matching(question_lower))

\* OptimizedSQLAgent.query_direct_sql
query_direct_sql_result(question, dbOut, agentOut) ==
    IF ~isinstance_str(question)
    THEN \* question.lower() raises inside the try
         [log |-> <<>>,
          ret |-> SqlResult(FALSE, SqlError("AttributeError"), question, "direct_sql")]
    ELSE
    LET m == first_match(lower(question.s)) IN
    IF m = 0 THEN query_with_agent_result(question, agentOut)
    ELSE
    LET p == sql_patterns[m]
        c == Call("pd.read_sql_query", p.sql, dbOut)
        a == IF dbOut.ok THEN format_answer(p.columns, dbOut.val)
             ELSE Fail(dbOut.err)
    IN [log |-> <<c>>,
        ret |-> IF a.ok
                THEN SqlResult(TRUE, SqlAnswer(a.val), question, "direct_sql")
                ELSE SqlResult(FALSE, SqlError(a.err), question, "direct_sql")]

query_direct_sql ==
    /\ op = "idle"
    /\ \E question \in QuestionArgs, dbOut \in DbOutcomes, agentOut \in AgentOutcomes :
        LET r == query_direct_sql_result(question, dbOut, agentOut) IN
        /\ op' = "query_direct_sql"
        /\ arg' = question
        /\ log' = r.log
        /\ ret' = r.ret
        /\ exc' = "none"
        /\ UNCHANGED agentVars

\* -------------------------------------------------- SimplifiedFactCheckAgent
\* __init__(..., max_search_results: int = 3)
DefaultMaxSearchResults == 3

\* what a search backend answers to the fact checker
EvidenceTexts == {<<"e", "v">>, <<" ">>}
FactSearchOutcomes == {Ok(t) : t \in EvidenceTexts} \cup {Fail(e) : e \in ServiceErrors}

SearchInfo(success, error, e, query, results, method) ==
    [success |-> success, error |-> error, e |-> e, query |-> query,
     results |-> results, method |-> method]

FactSearch(backend, query, out) ==
    Call("DuckDuckGoSearchRun.run", [backend |-> backend, query |-> query], out)

\* (a plausible slip: the HTML backend is asked first)
search_information_result_HtmlFirst(query, oApi, oHtml) ==
    IF ~isinstance_str(query) \/ strip(query.s) = <<>>
    THEN [log |-> <<>>,
          ret |-> SearchInfo(FALSE, "QUERY_EMPTY", "none", PyNone, <<>>, "none")]
    ELSE IF oHtml.ok
    THEN [log |-> <<FactSearch("html", query.s, oHtml)>>,
          ret |-> SearchInfo(TRUE, "none", "none", query, <<oHtml.val>>, "html")]
    ELSE IF oApi.ok
    THEN [log |-> <<FactSearch("html", query.s, oHtml), FactSearch("api", query.s, oApi)>>,
          ret |-> SearchInfo(TRUE, "none", "none", query, <<oApi.val>>, "api")]
    ELSE [log |-> <<FactSearch("html", query.s, oHtml), FactSearch("api", query.s, oApi)>>,
          ret |-> SearchInfo(FALSE, "SEARCH_FAILED", oApi.err, query, <<>>, "none")]

\* SimplifiedFactCheckAgent.search_information (time.sleep(1) before the
\* first search is left out: it changes nothing but the clock)
search_information_result(query, oApi, oHtml) ==
    IF ~isinstance_str(query) \/ strip(query.s) = <<>>
    THEN [log |-> <<>>,
          ret |-> SearchInfo(FALSE, "QUERY_EMPTY", "none", PyNone, <<>>, "none")]
    ELSE IF oApi.ok
    THEN [log |-> <<FactSearch("api", query.s, oApi)>>,
          ret |-> SearchInfo(TRUE, "none", "none", query, <<oApi.val>>, "api")]
    ELSE IF oHtml.ok
    THEN [log |-> <<FactSearch("api", query.s, oApi), FactSearch("html", query.s, oHtml)>>,
          ret |-> SearchInfo(TRUE, "none", "none", query, <<oHtml.val>>, "html")]
    ELSE [log |-> <<FactSearch("api", query.s, oApi), FactSearch("html", query.s, oHtml)>>,
          ret |-> SearchInfo(FALSE, "SEARCH_FAILED", oHtml.err, query, <<>>, "none")]

search_information ==
    /\ op = "idle"
    /\ \E query \in TextArgs, oApi, oHtml \in FactSearchOutcomes :
        LET r == search_information_result(query, oApi, oHtml) IN
        /\ op' = "search_information"
        /\ arg' = query
        /\ log' = r.log
        /\ ret' = r.ret
        /\ exc' = "none"
        /\ UNCHANGED agentVars

\* the claim's texts: blank, letter, digit and the words
\* generate_search_queries looks for (Thai in the source; stand-ins here:
\* "th" for Thai, "pth" for Thailand, which ends in it as in the source,
\* "bk" for Bangkok, "co" for continent)
KwThai == <<"t", "h">>
KwThailand == <<"p", "t", "h">>
KwBangkok == <<"b", "k">>
KwContinent == <<"c", "o">>
Digits == {"0", "1", "2", "3", "4", "5", "6", "7", "8", "9"}

ClaimPieces == {<<" ">>, <<"a">>, <<"1">>, KwThai}
Claims == {Concat(ps) : ps \in SeqsUpTo(ClaimPieces, MaxClaimPieces)}
ClaimArgs == {PyStr(c) : c \in Claims} \cup NonStrings

\* list[:n] for n >= 0
Slice(l, n) == SubSeq(l, 1, IF n < Len(l) THEN n ELSE Len(l))

\* SimplifiedFactCheckAgent.generate_search_queries
generate_search_queries(claim, n) ==
    LET base_queries == << <<"V", " ">> \o claim, <<"I", " ">> \o claim,
                           <<"E", " ">> \o claim >>
        key_words ==
            (IF Contains(claim, KwThailand) \/ Contains(claim, KwThai)
             THEN << <<"P", "o", "p">> >> ELSE <<>>)
            \o (IF Contains(claim, KwBangkok) THEN << <<"C", "a", "p">> >> ELSE <<>>)
            \o (IF Contains(claim, KwContinent) THEN << <<"N", "c", "o">> >> ELSE <<>>)
    IN Slice(IF \E i \in 1..Len(claim) : claim[i] \in Digits
             THEN base_queries \o key_words
             ELSE base_queries, n)

\* the answers one query's searches get: the api backend answers, the html
\* backend answers with blanks only, both raise
SearchRounds ==
    { [api |-> Ok(<<"e", "v">>), html |-> Fail("ConnectionError")],
      [api |-> Fail("ConnectionError"), html |-> Ok(<<" ">>)],
      [api |-> Fail("ConnectionError"), html |-> Fail("ConnectionError")] }

\* SimplifiedFactCheckAgent.collect_evidence: rounds[i] answers query i
collect_evidence(claim, n, rounds) ==
    LET search_queries == generate_search_queries(claim, n)
        results == [i \in 1..Len(search_queries) |->
                       search_information_result(PyStr(search_queries[i]),
                                                 rounds[i].api, rounds[i].html)]
        kept == {i \in 1..Len(search_queries) :
                    results[i].ret.success
                    /\ strip(Concat(results[i].ret.results)) # <<>>}
        items == [i \in 1..Len(search_queries) |->
                     [query |-> search_queries[i],
                      evidence |-> Concat(results[i].ret.results),
                      method |-> results[i].ret.method]]
    IN [log |-> Concat([i \in 1..Len(search_queries) |-> results[i].log]),
        evidence |-> SelectSeq(items, LAMBDA it :
                        \E i \in kept : items[i] = it),
        search_count |-> Len(search_queries),
        successful_count |->
            Cardinality({i \in 1..Len(search_queries) : results[i].ret.success})]

\* the verdict words as text
W_jing == <<"j", "i", "n", "g">>
W_thuk == <<"t", "h", "u", "k">>
W_correct == <<"c", "o", "r", "r", "e", "c", "t">>
W_true == <<"t", "r", "u", "e">>
W_thet == <<"t", "h", "e", "t">>
W_phit == <<"p", "h", "i", "t">>
W_false == <<"f", "a", "l", "s", "e">>
W_incorrect == <<"i", "n", "c", "o", "r", "r", "e", "c", "t">>
W_mainaejai == <<"m", "a", "i", "n", "a", "e", "j", "a", "i">>
W_uncertain == <<"u", "n", "c", "e", "r", "t", "a", "i", "n">>
W_maiphiangpho == <<"m", "a", "i", "p", "h", "i", "a", "n", "g", "p", "h", "o">>
W_insufficient == <<"i", "n", "s", "u", "f", "f", "i", "c", "i", "e", "n", "t">>

\* the words _parse_analysis_response looks for in the VERDICT text, in the
\* order of its tests (Thai words as transliterated stand-ins)
VerdictWords ==
    << [verdict |-> "TRUE", words |-> {W_jing, W_thuk, W_correct, W_true}],
       [verdict |-> "FALSE", words |-> {W_thet, W_phit, W_false, W_incorrect}],
       [verdict |-> "UNCERTAIN", words |-> {W_mainaejai, W_uncertain}],
       [verdict |-> "INSUFFICIENT", words |-> {W_maiphiangpho, W_insufficient}] >>

\* the VERDICT branch of _parse_analysis_response (lines 231-240)
parse_verdict(verdict_text) ==
    LET hits == {k \in 1..Len(VerdictWords) :
                    \E w \in VerdictWords[k].words : Contains(verdict_text, w)}
    IN IF hits = {} THEN "UNCERTAIN" ELSE VerdictWords[Min(hits)].verdict

\* what the critic model writes: a VERDICT text and the first number the
\* CONFIDENCE line's regex finds, in hundredths (-1: none found)
VerdictTexts == {W_jing, W_thet, W_incorrect, W_mainaejai, <<"k", " ">> \o W_maiphiangpho, <<>>}
\* the text after 'CONFIDENCE:' (no fraction has more than two digits, so
\* hundredths hold every value exactly)
ConfidenceTexts ==
    { <<"h", "i">>, <<"1">>, <<"0", ".", "0">>, <<"0", ".", "2", "9">>,
      <<"0", ".", "3">>, <<"-", "0", ".", "8", "5">>, <<"1", ".", "0">>,
      <<"8", "5", ".", "5">> }

\* the end of the longest run of digits that starts at i (i - 1 if none)
RECURSIVE digits_end(_, _)
digits_end(s, i) ==
    IF i <= Len(s) /\ s[i] \in Digits THEN digits_end(s, i + 1) ELSE i - 1

\* int() of a run of digits
RECURSIVE int_of(_)
int_of(ds) ==
    IF ds = <<>> THEN 0
    ELSE 10 * int_of(SubSeq(ds, 1, Len(ds) - 1))
         + (CHOOSE n \in 0..9 : ToString(n) = ds[Len(ds)])

\* re.findall(r'0\.\d+|\d+\.\d+', conf_text): the matches that start at
\* each position, leftmost first; a match is digits, a point, digits
number_at(s, i) ==
    LET a == digits_end(s, i)
        b == digits_end(s, a + 2)
    IN IF a >= i /\ a + 1 <= Len(s) /\ s[a + 1] = "." /\ b >= a + 2
       THEN [whole |-> SubSeq(s, i, a), frac |-> SubSeq(s, a + 2, b)]
       ELSE [whole |-> <<>>, frac |-> <<>>]

first_number(s) ==
    LET starts == {i \in 1..Len(s) : number_at(s, i).whole # <<>>}
    IN IF starts = {} THEN [whole |-> <<>>, frac |-> <<>>]
       ELSE number_at(s, Min(starts))

\* float(numbers[0]) in hundredths
float_hundredths(m) ==
    100 * int_of(m.whole)
    + int_of(SubSeq(m.frac \o <<"0", "0">>, 1, 2))

CriticResponses == [verdict_text : VerdictTexts, confidence : ConfidenceTexts]
CriticOutcomes == {Ok(r) : r \in CriticResponses} \cup {Fail(e) : e \in ServiceErrors}

\* SimplifiedFactCheckAgent._parse_analysis_response
parse_analysis_response(response) ==
    [verdict |-> parse_verdict(strip(response.verdict_text)),
     confidence_score |->
         IF first_number(strip(response.confidence)).whole = <<>> THEN 50
         ELSE float_hundredths(first_number(strip(response.confidence))),
     reasoning |-> "RESPONSE", e |-> "none"]

\* SimplifiedFactCheckAgent.analyze_claim
analyze_claim(claim, evidence, criticOut) ==
    IF criticOut.ok THEN parse_analysis_response(criticOut.val)
    ELSE [verdict |-> "INSUFFICIENT", confidence_score |-> 0,
          reasoning |-> "ANALYSIS_ERROR", e |-> criticOut.err]

\* (a plausible slip: confidence_score declared without ge/le)
FactCheckResult_valid_NoRange(claim, verdict, confidence_score, coerce) ==
    /\ claim.t = "str" \/ (claim.t = "int" /\ coerce)
    /\ verdict \in {"TRUE", "FALSE", "UNCERTAIN", "INSUFFICIENT"}

\* pydantic's check of the FactCheckResult fields (lines 18-28).  `coerce`
\* is pydantic 1, which turns a number into a string for a str field;
\* pydantic 2 rejects it.  None is rejected by both.
FactCheckResult_valid(claim, verdict, confidence_score, coerce) ==
    /\ claim.t = "str" \/ (claim.t = "int" /\ coerce)
    /\ verdict \in {"TRUE", "FALSE", "UNCERTAIN", "INSUFFICIENT"}
    /\ 0 <= confidence_score /\ confidence_score <= 100

FactCheckResult(claim, verdict, confidence_score, evidence, sources, reasoning, e, status) ==
    [claim |-> claim, verdict |-> verdict, confidence_score |-> confidence_score,
     evidence |-> evidence, sources |-> sources, reasoning |-> reasoning,
     e |-> e, status |-> status]

\* the except branch of fact_check (lines 329-343): the error result is
\* built from the same claim, so its construction can fail again
fact_check_except(claim, lg, e, coerce) ==
    IF FactCheckResult_valid(claim, "INSUFFICIENT", 0, coerce)
    THEN [log |-> lg, exc |-> "none",
          ret |-> FactCheckResult(claim, "INSUFFICIENT", 0, <<>>, <<>>,
                                  "PROCESSING_ERROR", e, "FAILED")]
    ELSE [log |-> lg, exc |-> "ValidationError", ret |-> NoRet]

\* (a plausible slip: the status looks at the confidence only)
fact_check_result_ConfidenceOnly(claim, n, rounds, criticOut, coerce) ==
    IF ~isinstance_str(claim) \/ strip(claim.s) = <<>>
    THEN IF FactCheckResult_valid(claim, "INSUFFICIENT", 0, coerce)
         THEN [log |-> <<>>, exc |-> "none",
               ret |-> FactCheckResult(claim, "INSUFFICIENT", 0, <<>>, <<>>,
                                       "CLAIM_EMPTY_OR_INVALID", "none", "FAILED")]
         ELSE fact_check_except(claim, <<>>, "ValidationError", coerce)
    ELSE
    LET evidence_result == collect_evidence(claim.s, n, rounds)
        analysis == analyze_claim(claim.s, evidence_result.evidence, criticOut)
        lg == evidence_result.log
                \o <<Call("critic_llm.invoke", claim.s, criticOut)>>
        status == IF analysis.confidence_score < 30 THEN "INSUFFICIENT"
                  ELSE "SUCCESS"
    IN IF FactCheckResult_valid(claim, analysis.verdict,
                                analysis.confidence_score, coerce)
       THEN [log |-> lg, exc |-> "none",
             ret |-> FactCheckResult(claim, analysis.verdict,
                        analysis.confidence_score,
                        <<evidence_result.evidence>>,
                        <<[ok |-> evidence_result.successful_count,
                           of |-> evidence_result.search_count]>>,
                        analysis.reasoning, analysis.e, status)]
       ELSE fact_check_except(claim, lg, "ValidationError", coerce)

\* SimplifiedFactCheckAgent.fact_check
fact_check_result(claim, n, rounds, criticOut, coerce) ==
    IF ~isinstance_str(claim) \/ strip(claim.s) = <<>>
    THEN IF FactCheckResult_valid(claim, "INSUFFICIENT", 0, coerce)
         THEN [log |-> <<>>, exc |-> "none",
               ret |-> FactCheckResult(claim, "INSUFFICIENT", 0, <<>>, <<>>,
                                       "CLAIM_EMPTY_OR_INVALID", "none", "FAILED")]
         ELSE fact_check_except(claim, <<>>, "ValidationError", coerce)
    ELSE
    LET evidence_result == collect_evidence(claim.s, n, rounds)
        analysis == analyze_claim(claim.s, evidence_result.evidence, criticOut)
        lg == evidence_result.log
                \o <<Call("critic_llm.invoke", claim.s, criticOut)>>
        status == IF evidence_result.successful_count = 0 THEN "INSUFFICIENT"
                  ELSE IF analysis.confidence_score < 30 THEN "INSUFFICIENT"
                  ELSE "SUCCESS"
    IN IF FactCheckResult_valid(claim, analysis.verdict,
                                analysis.confidence_score, coerce)
       THEN [log |-> lg, exc |-> "none",
             ret |-> FactCheckResult(claim, analysis.verdict,
                        analysis.confidence_score,
                        <<evidence_result.evidence>>,
                        <<[ok |-> evidence_result.successful_count,
                           of |-> evidence_result.search_count]>>,
                        analysis.reasoning, analysis.e, status)]
       ELSE fact_check_except(claim, lg, "ValidationError", coerce)

fact_check ==
    /\ op = "idle"
    /\ \E claim \in ClaimArgs, criticOut \in CriticOutcomes :
       \E coerce \in (IF claim.t = "int" THEN BOOLEAN ELSE {FALSE}) :
       \E rounds \in [1..Len(generate_search_queries(claim.s, max_search_results))
                      -> SearchRounds] :
        LET r == fact_check_result(claim, max_search_results, rounds, criticOut,
                                   coerce) IN
        /\ op' = "fact_check"
        /\ arg' = claim
        /\ log' = r.log
        /\ ret' = r.ret
        /\ exc' = r.exc
        /\ UNCHANGED agentVars

\* the values SimplifiedFactCheckAgent is constructed with (3 is the default)
MaxSearchResultsArgs == {1, 2, DefaultMaxSearchResults, 4, 6}

\* SimplifiedFactCheckAgent.__init__: a new agent replaces the old one
SimplifiedFactCheckAgent_init ==
    /\ op = "idle"
    /\ \E n \in MaxSearchResultsArgs : max_search_results' = n
    /\ UNCHANGED <<callVars, vectorstore, qa_chain, graph, query_history,
                   memory, requests, run>>

\* a call of generate_search_queries on its own
call_generate_search_queries ==
    /\ op = "idle"
    /\ \E claim \in Claims :
        /\ op' = "generate_search_queries"
        /\ arg' = PyStr(claim)
        /\ log' = <<>>
        /\ ret' = generate_search_queries(claim, max_search_results)
        /\ exc' = "none"
        /\ UNCHANGED agentVars

\* a call of collect_evidence on its own
call_collect_evidence ==
    /\ op = "idle"
    /\ \E claim \in Claims :
       \E rounds \in [1..Len(generate_search_queries(claim, max_search_results))
                      -> SearchRounds] :
        LET r == collect_evidence(claim, max_search_results, rounds) IN
        /\ op' = "collect_evidence"
        /\ arg' = PyStr(claim)
        /\ log' = r.log
        /\ ret' = [evidence |-> r.evidence, search_count |-> r.search_count,
                   successful_count |-> r.successful_count]
        /\ exc' = "none"
        /\ UNCHANGED agentVars

\* a call of _parse_analysis_response on its own
call_parse_analysis_response ==
    /\ op = "idle"
    /\ \E response \in CriticResponses :
        /\ op' = "_parse_analysis_response"
        /\ arg' = response
        /\ log' = <<>>
        /\ ret' = parse_analysis_response(response)
        /\ exc' = "none"
        /\ UNCHANGED agentVars

\* ------------------------------------------------------ text-processing agents
\* SummarizationAgent, EnhancedTranslationAgent, TextClassificationAgent and
\* DataExtractionAgent.  Lengths are scaled: chunk_size stands for the
\* constructor's chunk_size (2000 by default), and the interpreter's
\* recursion limit for sys.getrecursionlimit().
ChunkSize == 4

RecursionLimit == 3

OracleLen == 3

\* A model answer that holds a JSON object with the keys the prompts ask for;
\* it is longer than chunk_size.
JsonText == <<"{">> \o Rep("j", ChunkSize - 1) \o <<"}">>
ShortText == <<"k">>
TextLlmOutcomes == {Ok(ShortText), Ok(JsonText)} \cup {Fail(e) : e \in ServiceErrors}

\* The model's answers within one request, in call order (repeating).
Oracles == [1..OracleLen -> TextLlmOutcomes]
Answer(oracle, k) == oracle[(k % Len(oracle)) + 1]

\* elements of a batch: empty, blank, short, long, and non-strings
LongContent == Rep("a", ChunkSize + 1)
BatchTexts == {PyStr(<<>>), PyStr(<<" ">>), PyStr(<<"a">>), PyStr(LongContent),
               PyNone, PyInt(7)}
Batches == SeqsUpTo(BatchTexts, MaxBatch)
ContentArgs == TextArgs \cup {PyStr(LongContent), PyStr(LongContent \o LongContent)}

Raised(e, lg) == [raised |-> e, ret |-> NoRet, log |-> lg]
Returned(r, lg) == [raised |-> "none", ret |-> r, log |-> lg]

\* re.search(r'\{.*\}', response, re.DOTALL): from the first "{" to the last
\* "}" after it; <<>> when there is no match
json_search(response) ==
    LET opens == {i \in 1..Len(response) : response[i] = "{"}
        closes == {j \in 1..Len(response) : response[j] = "}"}
    IN  IF opens = {} \/ closes = {} \/ Max(closes \cup {0}) < Min(opens \cup {Len(response) + 1})
        THEN <<>>
        ELSE SubSeq(response, Min(opens), Max(closes))

\* RecursiveCharacterTextSplitter.split_text: pieces of at most chunk_size
\* characters, stripped, blank pieces dropped
split_text(s) ==
    LET count == (Len(s) + ChunkSize - 1) \div ChunkSize
        pieces == [i \in 1..count |->
                      strip(SubSeq(s, (i - 1) * ChunkSize + 1,
                                   Min({i * ChunkSize, Len(s)})))]
    IN  SelectSeq(pieces, LAMBDA piece : piece # <<>>)

\* "\n\n".join(chunk_summaries)
RECURSIVE join(_)
join(ss) ==
    IF Len(ss) = 0 THEN <<>>
    ELSE IF Len(ss) = 1 THEN ss[1]
    ELSE ss[1] \o <<"\n", "\n">> \o join(Tail(ss))

Summary(success, has_summary, summary, error, e, content_length) ==
    [success |-> success, has_summary |-> has_summary, summary |-> summary,
     error |-> error, e |-> e, content_length |-> content_length,
     batch_index |-> -1]
SummaryOk(summary, n) == Summary(TRUE, TRUE, summary, "none", "none", n)
SummaryError(error, e, n) == Summary(FALSE, FALSE, <<>>, error, e, n)

RECURSIVE summarize_r(_, _, _, _)
RECURSIVE summarize_chunks(_, _, _, _)
RECURSIVE summarize_long_content(_, _, _, _)

\* (a plausible slip: the validation forgets .strip())
summarize_r_NoStrip(content, oracle, k, depth) ==
    IF ~Truthy(content)
    THEN Returned(SummaryError("CONTENT_EMPTY_OR_INVALID", "none", 0), <<>>)
    ELSE IF ~isinstance_str(content) THEN Raised("AttributeError", <<>>)
    ELSE LET out == Answer(oracle, k)
             lg == <<Call("llm", content.s, out)>>
         IN  IF out.ok THEN Returned(SummaryOk(out.val, Len(content.s)), lg)
             ELSE Returned(SummaryError("ERROR_OCCURRED", out.err, Len(content.s)), lg)

\* SummarizationAgent.summarize, called with depth-1 summarize frames on the
\* stack and after k model calls of the request
summarize_r(content, oracle, k, depth) ==
    IF depth > RecursionLimit THEN Raised("RecursionError", <<>>)
    ELSE IF ~Truthy(content)
    THEN Returned(SummaryError("CONTENT_EMPTY_OR_INVALID", "none", 0), <<>>)
    ELSE IF ~isinstance_str(content) THEN Raised("AttributeError", <<>>)
    ELSE IF strip(content.s) = <<>>
    THEN Returned(SummaryError("CONTENT_EMPTY_OR_INVALID", "none", 0), <<>>)
    ELSE IF Len(content.s) > ChunkSize
    THEN LET r == summarize_long_content(content.s, oracle, k, depth) IN
         IF r.raised # "none"
         THEN Returned(SummaryError("ERROR_OCCURRED", r.raised, Len(content.s)), r.log)
         ELSE r
    ELSE LET out == Answer(oracle, k)
             lg == <<Call("llm", content.s, out)>>
         IN  IF out.ok THEN Returned(SummaryOk(out.val, Len(content.s)), lg)
             ELSE Returned(SummaryError("ERROR_OCCURRED", out.err, Len(content.s)), lg)

\* the loop over the chunks: the summaries of the chunks that succeeded
summarize_chunks(chunks, oracle, k, depth) ==
    IF Len(chunks) = 0 THEN [raised |-> "none", summaries |-> <<>>, log |-> <<>>]
    ELSE LET r == summarize_r(PyStr(Head(chunks)), oracle, k, depth) IN
         IF r.raised # "none"
         THEN [raised |-> r.raised, summaries |-> <<>>, log |-> r.log]
         ELSE LET rest == summarize_chunks(Tail(chunks), oracle, k + Len(r.log), depth)
                  mine == IF r.ret.success THEN <<r.ret.summary>> ELSE <<>>
              IN  [raised |-> rest.raised,
                   summaries |-> mine \o rest.summaries,
                   log |-> r.log \o rest.log]

\* SummarizationAgent._summarize_long_content
summarize_long_content(content, oracle, k, depth) ==
    LET chunks == split_text(content)
        cs == summarize_chunks(chunks, oracle, k, depth + 1)
        combined_summary == join(cs.summaries)
    IN  IF cs.raised # "none" THEN Raised(cs.raised, cs.log)
        ELSE IF Len(combined_summary) > ChunkSize
        THEN LET final_result == summarize_r(PyStr(combined_summary), oracle,
                                             k + Len(cs.log), depth + 1)
                 lg == cs.log \o final_result.log
             IN  IF final_result.raised # "none" THEN Raised(final_result.raised, lg)
                 ELSE Returned(SummaryOk(IF final_result.ret.has_summary
                                         THEN final_result.ret.summary
                                         ELSE combined_summary, Len(content)), lg)
        ELSE Returned(SummaryOk(combined_summary, Len(content)), cs.log)

\* EnhancedTranslationAgent._simple_language_detection
simple_language_detection(text) ==
    IF \E i \in 1..Len(strip(text)) : \E j \in 1..Len(LowerLetters) :
           strip(text)[i] \in {UpperLetters[j], LowerLetters[j]}
    THEN "english" ELSE "unspecified"

\* EnhancedTranslationAgent.detect_language
detect_language(text, out) ==
    IF ~out.ok THEN "unspecified"
    ELSE IF json_search(out.val) # <<>> THEN "parsed_language"
    ELSE simple_language_detection(text)

TranslationResult(original_text, translated_text, detected_language, error, e) ==
    [original_text |-> original_text, translated_text |-> translated_text,
     detected_language |-> detected_language, error |-> error, e |-> e]

\* EnhancedTranslationAgent.translate with the default target_language, no
\* source_language and auto_detect
translate_r(text, oracle, k) ==
    IF ~Truthy(text)
    THEN Returned(TranslationResult(text, <<>>, "None", "TEXT_EMPTY", "none"), <<>>)
    ELSE IF ~isinstance_str(text) THEN Raised("AttributeError", <<>>)
    ELSE IF strip(text.s) = <<>>
    THEN Returned(TranslationResult(text, <<>>, "None", "TEXT_EMPTY", "none"), <<>>)
    ELSE LET d == Answer(oracle, k)
             t == Answer(oracle, k + 1)
             detected_lang == detect_language(text.s, d)
             lg == <<Call("llm_detect", strip(text.s), d),
                     Call("llm_translate", strip(text.s), t)>>
         IN  IF t.ok
             THEN Returned(TranslationResult(text,
                              IF json_search(t.val) # <<>> THEN json_search(t.val)
                              ELSE strip(t.val),
                              detected_lang, "none", "none"), lg)
             ELSE Returned(TranslationResult(text, <<>>, "None", "ERROR_OCCURRED", t.err), lg)

Classification(error, e, category, raw_response) ==
    [error |-> error, e |-> e, category |-> category, raw_response |-> raw_response]

\* TextClassificationAgent._parse_response
parse_response(response) ==
    IF json_search(response) # <<>>
    THEN Classification("none", "none", "parsed_category", response)
    ELSE Classification("none", "none", "unspecified", response)

\* TextClassificationAgent.classify with the default categories
classify_r(text, oracle, k) ==
    IF ~Truthy(text)
    THEN Returned(Classification("TEXT_EMPTY", "none", "None", <<>>), <<>>)
    ELSE IF ~isinstance_str(text) THEN Raised("AttributeError", <<>>)
    ELSE IF strip(text.s) = <<>>
    THEN Returned(Classification("TEXT_EMPTY", "none", "None", <<>>), <<>>)
    ELSE LET out == Answer(oracle, k)
             lg == <<Call("llm", strip(text.s), out)>>
         IN  IF out.ok THEN Returned(parse_response(out.val), lg)
             ELSE Returned(Classification("ERROR_OCCURRED", out.err, "None", <<>>), lg)

Extraction(error, e, parsed, raw_response) ==
    [error |-> error, e |-> e, parsed |-> parsed, raw_response |-> raw_response,
     text_index |-> -1]

\* DataExtractionAgent.extract: text[:100] raises TypeError inside the try
\* for a value that cannot be sliced
extract_r(text, oracle, k) ==
    IF ~isinstance_str(text)
    THEN Returned(Extraction("ERROR_OCCURRED", "TypeError", FALSE, <<>>), <<>>)
    ELSE LET out == Answer(oracle, k)
             lg == <<Call("llm", text.s, out)>>
         IN  IF ~out.ok THEN Returned(Extraction("ERROR_OCCURRED", out.err, FALSE, <<>>), lg)
             ELSE IF json_search(out.val) # <<>>
             THEN Returned(Extraction("none", "none", TRUE, <<>>), lg)
             ELSE Returned(Extraction("none", "none", FALSE, out.val), lg)

\* one element of a batch operation
element_r(batch_op, text, oracle, k) ==
    CASE batch_op = "batch_summarize" -> summarize_r(text, oracle, k, 1)
      [] batch_op = "batch_translate" -> translate_r(text, oracle, k)
      [] batch_op = "extract_batch" -> extract_r(text, oracle, k)

\* result["batch_index"] = i, result["text_index"] = i
indexed(batch_op, result, i) ==
    CASE batch_op = "batch_summarize" -> [result EXCEPT !.batch_index = i]
      [] batch_op = "batch_translate" -> result
      [] batch_op = "extract_batch" -> [result EXCEPT !.text_index = i]

\* (a plausible slip: elements that failed are left out of the results)
RECURSIVE batch_r_SkipsFailed(_, _, _, _, _)
batch_r_SkipsFailed(batch_op, texts, oracle, i, k) ==
    IF i >= Len(texts) THEN [raised |-> "none", results |-> <<>>, log |-> <<>>]
    ELSE LET r == element_r(batch_op, texts[i + 1], oracle, k) IN
         IF r.raised # "none"
         THEN [raised |-> r.raised, results |-> <<>>, log |-> r.log]
         ELSE LET rest == batch_r_SkipsFailed(batch_op, texts, oracle, i + 1, k + Len(r.log))
                  mine == IF r.ret.error = "none" THEN <<indexed(batch_op, r.ret, i)>>
                          ELSE <<>>
              IN  [raised |-> rest.raised,
                   results |-> IF rest.raised # "none" THEN <<>> ELSE mine \o rest.results,
                   log |-> r.log \o rest.log]

\* the loop of batch_summarize, batch_translate and extract_batch from
\* element i (0-based) on, after k model calls
RECURSIVE batch_r(_, _, _, _, _)
batch_r(batch_op, texts, oracle, i, k) ==
    IF i >= Len(texts) THEN [raised |-> "none", results |-> <<>>, log |-> <<>>]
    ELSE LET r == element_r(batch_op, texts[i + 1], oracle, k) IN
         IF r.raised # "none"
         THEN [raised |-> r.raised, results |-> <<>>, log |-> r.log]
         ELSE LET rest == batch_r(batch_op, texts, oracle, i + 1, k + Len(r.log)) IN
              [raised |-> rest.raised,
               results |-> IF rest.raised # "none" THEN <<>>
                           ELSE <<indexed(batch_op, r.ret, i)>> \o rest.results,
               log |-> r.log \o rest.log]

\* a single-text request: the call returns r.ret or raises r.raised
Request(name, a, r) ==
    /\ op' = name
    /\ arg' = a
    /\ log' = r.log
    /\ ret' = r.ret
    /\ exc' = r.raised
    /\ UNCHANGED agentVars

summarize ==
    /\ op = "idle"
    /\ \E content \in ContentArgs, oracle \in Oracles :
        Request("summarize", content, summarize_r(content, oracle, 0, 1))

translate ==
    /\ op = "idle"
    /\ \E text \in TextArgs, oracle \in Oracles :
        Request("translate", text, translate_r(text, oracle, 0))

classify ==
    /\ op = "idle"
    /\ \E text \in TextArgs, oracle \in Oracles :
        Request("classify", text, classify_r(text, oracle, 0))

extract ==
    /\ op = "idle"
    /\ \E text \in TextArgs, oracle \in Oracles :
        Request("extract", text, extract_r(text, oracle, 0))

Batch(batch_op, texts, r) ==
    /\ op' = batch_op
    /\ arg' = texts
    /\ log' = r.log
    /\ ret' = IF r.raised = "none" THEN r.results ELSE NoRet
    /\ exc' = r.raised
    /\ UNCHANGED agentVars

batch_summarize ==
    /\ op = "idle"
    /\ \E contents \in Batches, oracle \in Oracles :
        Batch("batch_summarize", contents, batch_r("batch_summarize", contents, oracle, 0, 0))

batch_translate ==
    /\ op = "idle"
    /\ \E texts \in Batches, oracle \in Oracles :
        Batch("batch_translate", texts, batch_r("batch_translate", texts, oracle, 0, 0))

extract_batch ==
    /\ op = "idle"
    /\ \E texts \in Batches, oracle \in Oracles :
        Batch("extract_batch", texts, batch_r("extract_batch", texts, oracle, 0, 0))

\* ------------------------------------ RAGSystem, MultiDocRAGAgent, PDFQAAgent
RagAgents == {"RAGSystem", "MultiDocRAGAgent", "PDFQAAgent"}

\* self.vectorstore and self.qa_chain: None, or the object built
NoStore == [set |-> FALSE, docs |-> <<>>]
Store(chunks) == [set |-> TRUE, docs |-> chunks]
NoChain == [set |-> FALSE, retriever |-> <<>>]
Chain(store) == [set |-> TRUE, retriever |-> store.docs]

PyList(items) == [t |-> "list", s |-> items, n |-> 0]
ChunkLists == {<<>>, <<"d1">>, <<"d1", "d2">>}
ChunkArgs == {PyList(c) : c \in ChunkLists} \cup {PyNone}
BuildOutcomes == {Ok(<<>>)} \cup {Fail(e) : e \in ServiceErrors}

PyBool(b) == [kind |-> "bool", val |-> b]
\* RAGSystem's methods return a bool, the other two classes' return None
Status(a, b) == IF a = "RAGSystem" THEN PyBool(b) ELSE NoRet

\* create_vectorstore: the new self.vectorstore and the value returned
create_vectorstore_result(a, store, chunks, out) ==
    IF chunks.t # "list" \/ chunks.s = <<>>
    THEN [vectorstore |-> store, ret |-> Status(a, FALSE), log |-> <<>>]
    ELSE [vectorstore |-> IF out.ok THEN Store(chunks.s) ELSE store,
          ret |-> Status(a, out.ok),
          log |-> <<Call("FAISS.from_documents", chunks.s, out)>>]

\* (a plausible slip: the check for an existing vector store is missing)
setup_qa_chain_result_NoCheck(a, store, out) ==
    [qa_chain |-> IF out.ok THEN Chain(store) ELSE NoChain,
     ret |-> Status(a, out.ok),
     log |-> <<Call("RetrievalQA.from_chain_type", store.docs, out)>>]

\* setup_qa_chain: the new self.qa_chain (None when it stays unset) and the
\* value returned
setup_qa_chain_result(a, store, out) ==
    IF ~store.set
    THEN [qa_chain |-> NoChain, ret |-> Status(a, FALSE), log |-> <<>>]
    ELSE [qa_chain |-> IF out.ok THEN Chain(store) ELSE NoChain,
          ret |-> Status(a, out.ok),
          log |-> <<Call("RetrievalQA.from_chain_type", store.docs, out)>>]

Answer_(answer, sources) == [kind |-> "answer", answer |-> answer, sources |-> sources]
NotReady(a) ==
    IF a = "RAGSystem" THEN Msg("SYSTEM_NOT_READY_SET_UP_FIRST") ELSE Msg("SYSTEM_NOT_READY")

\* query
rag_query_result(a, qa, question, out) ==
    IF ~isinstance_str(question) \/ strip(question.s) = <<>>
    THEN [ret |-> Answer_(Msg("QUESTION_EMPTY_OR_INVALID"), <<>>), log |-> <<>>]
    ELSE IF ~qa.set
    THEN [ret |-> Answer_(NotReady(a), <<>>), log |-> <<>>]
    ELSE [ret |-> IF out.ok
                  THEN Answer_(Text(out.val),
                               IF a = "PDFQAAgent" THEN <<>> ELSE qa.retriever)
                  ELSE Answer_(ErrMsg("ERROR_OCCURRED", out.err), <<>>),
          log |-> <<Call("qa_chain.invoke", question.s, out)>>]

On(a, v) == [agent |-> a, v |-> v]

create_vectorstore ==
    /\ op = "idle"
    /\ \E a \in RagAgents, chunks \in ChunkArgs, out \in BuildOutcomes :
        LET r == create_vectorstore_result(a, vectorstore[a], chunks, out) IN
        /\ op' = "create_vectorstore"
        /\ arg' = On(a, chunks)
        /\ vectorstore' = [vectorstore EXCEPT ![a] = r.vectorstore]
        /\ log' = r.log
        /\ ret' = r.ret
        /\ exc' = "none"
        /\ UNCHANGED <<qa_chain, max_search_results, graph, query_history, memory, requests, run>>

setup_qa_chain ==
    /\ op = "idle"
    /\ \E a \in RagAgents, out \in BuildOutcomes :
        LET r == setup_qa_chain_result(a, vectorstore[a], out) IN
        /\ op' = "setup_qa_chain"
        /\ arg' = On(a, PyNone)
        /\ qa_chain' = [qa_chain EXCEPT ![a] = IF r.qa_chain.set THEN r.qa_chain ELSE @]
        /\ log' = r.log
        /\ ret' = r.ret
        /\ exc' = "none"
        /\ UNCHANGED <<vectorstore, max_search_results, graph, query_history, memory, requests, run>>

rag_query ==
    /\ op = "idle"
    /\ \E a \in RagAgents, question \in TextArgs, out \in LlmOutcomes :
        LET r == rag_query_result(a, qa_chain[a], question, out) IN
        /\ op' = "rag_query"
        /\ arg' = On(a, question)
        /\ log' = r.log
        /\ ret' = r.ret
        /\ exc' = "none"
        /\ UNCHANGED agentVars

\* ------------------------------------------------------- KnowledgeGraphAgent
\* self.graph, a networkx DiGraph: the nodes in insertion order and the edges
\* in insertion order, one relation per ordered pair of nodes.
NewGraph == [nodes |-> <<>>, edges |-> <<>>]

InSeq(x, s) == \E i \in 1..Len(s) : s[i] = x

\* DiGraph.add_edge(u, v, relation=rel)
add_edge(g, u, v, rel) ==
    LET n1 == IF InSeq(u, g.nodes) THEN g.nodes ELSE Append(g.nodes, u)
        n2 == IF InSeq(v, n1) THEN n1 ELSE Append(n1, v)
        e == [u |-> u, rel |-> rel, v |-> v]
    IN  [nodes |-> n2,
         edges |-> IF \E i \in 1..Len(g.edges) :
                          g.edges[i].u = u /\ g.edges[i].v = v
                   THEN [i \in 1..Len(g.edges) |->
                            IF g.edges[i].u = u /\ g.edges[i].v = v
                            THEN e ELSE g.edges[i]]
                   ELSE Append(g.edges, e)]

\* DiGraph.edges(data=True): by source node in node order, then by insertion
RECURSIVE edges_from(_, _)
edges_from(g, i) ==
    IF i > Len(g.nodes) THEN <<>>
    ELSE SelectSeq(g.edges, LAMBDA e : e.u = g.nodes[i]) \o edges_from(g, i + 1)

\* str.split(sep) for a one-character separator
RECURSIVE split(_, _)
split(s, sep) ==
    IF \A i \in 1..Len(s) : s[i] # sep THEN <<s>>
    ELSE LET i == Min({j \in 1..Len(s) : s[j] = sep}) IN
         <<SubSeq(s, 1, i - 1)>> \o split(SubSeq(s, i + 1, Len(s)), sep)

\* [l.strip() for l in text.splitlines() if l.strip()]
stripped_lines(text) ==
    LET ls == split(text, "\n") IN
    SelectSeq([i \in 1..Len(ls) |-> strip(ls[i])], LAMBDA l : l # <<>>)

startswith(s, p) == Len(s) >= Len(p) /\ SubSeq(s, 1, Len(p)) = p

\* re.sub(r'^[\*\-\d\.\s]*', '', line)
RECURSIVE strip_bullet(_)
strip_bullet(line) ==
    IF line # <<>> /\ Head(line) \in {"*", "-", "."} \cup Digits \cup Whitespace
    THEN strip_bullet(Tail(line)) ELSE line

clean_triplet_line(line) ==
    LET l == strip(strip_bullet(line)) IN
    IF l # <<>> /\ Head(l) = "(" /\ l[Len(l)] = ")"
    THEN SubSeq(l, 2, Len(l) - 1) ELSE l

\* [p.strip() for p in line_clean.split(",") if p.strip()]
comma_parts(line_clean) ==
    LET ps == split(line_clean, ",") IN
    SelectSeq([i \in 1..Len(ps) |-> strip(ps[i])], LAMBDA p : p # <<>>)

RECURSIVE strip_digits(_)
strip_digits(s) == IF s # <<>> /\ Head(s) \in Digits THEN strip_digits(Tail(s)) ELSE s

\* re.match(r'^(\d+\.|\*)?\s*<label>:', line, re.I)
label_match(label, line) ==
    LET after_number == strip_digits(line)
        rests == {line}
                 \cup (IF line # <<>> /\ Head(line) = "*" THEN {Tail(line)} ELSE {})
                 \cup (IF after_number # line /\ after_number # <<>> /\ Head(after_number) = "."
                       THEN {Tail(after_number)} ELSE {})
    IN  \E r \in rests : startswith(lower(lstrip(r)), label \o <<":">>)

\* line.split(":", 1)[1].strip()
after_colon(line) ==
    LET i == Min({j \in 1..Len(line) : line[j] = ":"}) IN
    strip(SubSeq(line, i + 1, Len(line)))

L_subject == <<"s", "u", "b", "j", "e", "c", "t">>
L_relation == <<"r", "e", "l", "a", "t", "i", "o", "n">>
L_object == <<"o", "b", "j", "e", "c", "t">>

\* the loop of lines 43-61 from line i on: the graph it leaves
RECURSIVE add_triplets(_, _, _, _)
add_triplets(g, lines, i, triplet) ==
    IF i > Len(lines) THEN g
    ELSE LET line == lines[i]
             parts == comma_parts(clean_triplet_line(line))
         IN  IF Len(parts) = 3
             THEN add_triplets(add_edge(g, parts[1], parts[3], parts[2]), lines, i + 1, <<>>)
             ELSE IF label_match(L_subject, line)
             THEN add_triplets(g, lines, i + 1, <<after_colon(line)>>)
             ELSE IF label_match(L_relation, line) /\ triplet # <<>>
             THEN add_triplets(g, lines, i + 1, Append(triplet, after_colon(line)))
             ELSE IF label_match(L_object, line) /\ Len(triplet) = 2
             THEN add_triplets(add_edge(g, triplet[1], after_colon(line), triplet[2]),
                               lines, i + 1, <<>>)
             ELSE add_triplets(g, lines, i + 1, triplet)

\* the triplets the loop of lines 43-61 prints as added ("Add edge: ..."
\* at lines 48 and 59), in order
RECURSIVE printed_triplets(_, _, _)
printed_triplets(lines, i, triplet) ==
    IF i > Len(lines) THEN <<>>
    ELSE LET line == lines[i]
             parts == comma_parts(clean_triplet_line(line))
         IN  IF Len(parts) = 3
             THEN <<parts>> \o printed_triplets(lines, i + 1, <<>>)
             ELSE IF label_match(L_subject, line)
             THEN printed_triplets(lines, i + 1, <<after_colon(line)>>)
             ELSE IF label_match(L_relation, line) /\ triplet # <<>>
             THEN printed_triplets(lines, i + 1, Append(triplet, after_colon(line)))
             ELSE IF label_match(L_object, line) /\ Len(triplet) = 2
             THEN <<Append(triplet, after_colon(line))>>
                  \o printed_triplets(lines, i + 1, <<>>)
             ELSE printed_triplets(lines, i + 1, triplet)

\* what the model answers to the extraction prompt
TripletTexts ==
    {<<"A", ",", "f", ",", "B">>,
     <<"(", "A", ",", " ", "g", ",", " ", "B", ")">>,
     <<"1", ".", " ", "B", ",", "f", ",", "c", "\n", "o", "k">>,
     <<"7", ",", "f", ",", "A">>,
     L_subject \o <<":", " ", "A", "\n">> \o L_relation \o <<":", "f", "\n">>
        \o L_object \o <<":", " ", "D">>,
     L_relation \o <<":", "f", "\n">> \o L_object \o <<":", "D", "\n">>
        \o L_subject \o <<":", "A", "\n">> \o L_relation \o <<":", "f", "\n">>
        \o L_relation \o <<":", "g", "\n">> \o L_object \o <<":", "D">>,
     L_subject \o <<":", " ", "A", ",", "f", ",", "B">>,
     <<"o", "k">>}
TripletOutcomes == {Ok(t) : t \in TripletTexts} \cup {Fail(e) : e \in ServiceErrors}

\* build_graph_from_text: the graph it leaves; it returns None on every path
build_graph_from_text_result(g, text, out) ==
    IF ~isinstance_str(text) \/ strip(text.s) = <<>>
    THEN [graph |-> g, log |-> <<>>]
    ELSE [graph |-> IF out.ok THEN add_triplets(g, stripped_lines(out.val), 1, <<>>)
                    ELSE g,
          log |-> <<Call("chain.invoke", text.s, out)>>]

Think == <<"<", "t", "h", "i", "n", "k", ">">>

\* the loop of lines 81-88: the first line after a line that starts with
\* <think>; <<>> when there is none
RECURSIVE node_after_think(_, _, _)
node_after_think(node_lines, i, found_think) ==
    IF i > Len(node_lines) THEN <<>>
    ELSE IF found_think THEN node_lines[i]
    ELSE node_after_think(node_lines, i + 1, startswith(lower(node_lines[i]), Think))

\* what the model answers to the node prompt
NodeTexts ==
    {<<"A">>, <<"b">>, <<"Z">>, <<>>, Think \o <<"\n", "D">>, <<"A", "\n", "B">>}
NodeOutcomes == {Ok(t) : t \in NodeTexts} \cup {Fail(e) : e \in ServiceErrors}

Answers(triplets) == [kind |-> "answers", id |-> "", text |-> triplets, e |-> "none"]

\* KnowledgeGraphAgent.query
kg_query_result(g, question, out) ==
    IF ~isinstance_str(question) \/ strip(question.s) = <<>>
    THEN [ret |-> Msg("QUESTION_EMPTY_OR_INVALID"), log |-> <<>>]
    ELSE
    LET lg == <<Call("chain.invoke", [question |-> question.s, nodes |-> g.nodes], out)>>
        node_raw == strip(out.val)
        after == node_after_think(stripped_lines(node_raw), 1, FALSE)
        node == IF after # <<>> THEN after ELSE node_raw
        hits == {i \in 1..Len(g.nodes) : Contains(lower(g.nodes[i]), lower(node))}
        answers == IF hits = {} THEN <<>>
                   ELSE SelectSeq(edges_from(g, 1),
                                  LAMBDA e : g.nodes[Min(hits)] \in {e.u, e.v})
    IN  IF ~out.ok THEN [ret |-> Msg("SEARCH_ERROR"), log |-> lg]
        ELSE [ret |-> IF answers # <<>> THEN Answers(answers) ELSE Msg("NOT_FOUND_IN_GRAPH"),
              log |-> lg]

\* OptimizedSQLAgent.query, its history and its conversation memory
SqlInvalid(question) ==
    SqlResult(FALSE, SqlAnswer("QUESTION_EMPTY_OR_INVALID"), question, "none")

\* (a plausible slip: a question already in the history is answered from it)
sql_query_result_Cached(hist, mem, question, dbOut, agentOut) ==
    IF \E i \in 1..Len(hist) : hist[i].question = question
    THEN [raised |-> "none", log |-> <<>>,
          ret |-> hist[CHOOSE i \in 1..Len(hist) :
                                    hist[i].question = question],
          query_history |-> hist, memory |-> mem]
    ELSE LET r == query_direct_sql_result(question, dbOut, agentOut) IN
         [raised |-> "none", ret |-> r.ret, log |-> r.log,
          query_history |-> Append(hist, r.ret), memory |-> mem]

\* query(question): the result, and the history and memory it leaves
sql_query_result(hist, mem, question, dbOut, agentOut) ==
    IF ~Truthy(question)
    THEN [raised |-> "none", ret |-> SqlInvalid(question), log |-> <<>>,
          query_history |-> hist, memory |-> mem]
    ELSE IF ~isinstance_str(question)
    THEN [raised |-> "AttributeError", ret |-> NoRet, log |-> <<>>,
          query_history |-> hist, memory |-> mem]
    ELSE IF strip(question.s) = <<>>
    THEN [raised |-> "none", ret |-> SqlInvalid(question), log |-> <<>>,
          query_history |-> hist, memory |-> mem]
    ELSE LET r == query_direct_sql_result(question, dbOut, agentOut) IN
         [raised |-> "none", ret |-> r.ret, log |-> r.log,
          query_history |-> Append(hist, r.ret),
          memory |-> IF r.ret.success
                     THEN Append(mem, [input |-> question, output |-> r.ret.answer])
                     ELSE mem]

\* questions put to query: one with a key, one without, a blank one, and
\* non-strings
HistoryQuestions ==
    {PyStr(sql_patterns[1].pattern), PyStr(<<"x">>), PyStr(<<" ">>)} \cup NonStrings
HistoryDbOutcomes ==
    {Ok([rows |-> 1, null |-> FALSE]), Ok([rows |-> 0, null |-> FALSE]),
     Fail("OperationalError")}

sql_query ==
    /\ op = "idle"
    /\ requests < MaxRequests
    /\ \E question \in HistoryQuestions, dbOut \in HistoryDbOutcomes,
          agentOut \in AgentOutcomes :
        LET r == sql_query_result(query_history, memory, question, dbOut, agentOut) IN
        /\ op' = "sql_query"
        /\ arg' = question
        /\ log' = r.log
        /\ ret' = r.ret
        /\ exc' = r.raised
        /\ query_history' = r.query_history
        /\ memory' = r.memory
        /\ requests' = requests + 1
        /\ UNCHANGED <<graph, max_search_results, vectorstore, qa_chain, run>>

build_graph_from_text ==
    /\ op = "idle"
    /\ requests < MaxRequests
    /\ \E text \in TextArgs, out \in TripletOutcomes :
        LET r == build_graph_from_text_result(graph, text, out) IN
        /\ op' = "build_graph_from_text"
        /\ arg' = text
        /\ log' = r.log
        /\ ret' = NoRet
        /\ exc' = "none"
        /\ graph' = r.graph
        /\ requests' = requests + 1
        /\ UNCHANGED <<query_history, memory, max_search_results, vectorstore, qa_chain, run>>

kg_query ==
    /\ op = "idle"
    /\ \E question \in TextArgs, out \in NodeOutcomes :
        LET r == kg_query_result(graph, question, out) IN
        /\ op' = "kg_query"
        /\ arg' = question
        /\ log' = r.log
        /\ ret' = r.ret
        /\ exc' = "none"
        /\ UNCHANGED agentVars

\* --------------------------------------------- summarize, call by call
\* SummarizationAgent.summarize and _summarize_long_content call each other;
\* here each call and each return is a step of its own, on a stack of frames.

\* what a call hands back to its caller: a returned value or an exception
NoRv == [kind |-> "none", val |-> NoRet, e |-> "none"]
RvReturn(r) == [kind |-> "return", val |-> r, e |-> "none"]
RvRaise(e) == [kind |-> "raise", val |-> NoRet, e |-> e]

NoRun == [oracle |-> <<>>, stack |-> <<>>, rv |-> NoRv]

\* a frame of summarize (content is its argument) or of
\* _summarize_long_content (chunks: the chunks not yet summarized; summaries:
\* chunk_summaries)
Frame(fn, pc, content, chunks, summaries) ==
    [fn |-> fn, pc |-> pc, content |-> content, chunks |-> chunks,
     summaries |-> summaries]

Top == run.stack[Len(run.stack)]
Popped == SubSeq(run.stack, 1, Len(run.stack) - 1)
\* the summarize frames on the stack (the depth summarize_r counts)
Depth == Cardinality({i \in 1..Len(run.stack) : run.stack[i].fn = "summarize"})

\* a call of summarize starts
summarize_call ==
    /\ op = "idle"
    /\ \E content \in ContentArgs, oracle \in Oracles :
        /\ op' = "summarizing"
        /\ arg' = content
        /\ run' = [oracle |-> oracle,
                   stack |-> <<Frame("summarize", "entry", content, <<>>, <<>>)>>,
                   rv |-> NoRv]
    /\ UNCHANGED <<log, ret, exc, objectVars>>

\* summarize, lines 137-169: validation, then the call of
\* _summarize_long_content or of the model; what it leaves in run and log
summarize_enter_r ==
    LET content == Top.content
        out == Answer(run.oracle, Len(log))
        back(rv) == [run |-> [run EXCEPT !.stack = Popped, !.rv = rv], log |-> log]
    IN  IF Depth > RecursionLimit THEN back(RvRaise("RecursionError"))
        ELSE IF ~Truthy(content)
        THEN back(RvReturn(SummaryError("CONTENT_EMPTY_OR_INVALID", "none", 0)))
        ELSE IF ~isinstance_str(content) THEN back(RvRaise("AttributeError"))
        ELSE IF strip(content.s) = <<>>
        THEN back(RvReturn(SummaryError("CONTENT_EMPTY_OR_INVALID", "none", 0)))
        ELSE IF Len(content.s) > ChunkSize
        THEN [run |-> [run EXCEPT !.stack =
                          Append(Popped, Frame("summarize", "wait", content, <<>>, <<>>))
                          \o <<Frame("_summarize_long_content", "loop", content.s,
                                     split_text(content.s), <<>>)>>],
              log |-> log]
        ELSE [run |-> [run EXCEPT !.stack = Popped,
                          !.rv = IF out.ok
                                 THEN RvReturn(SummaryOk(out.val, Len(content.s)))
                                 ELSE RvReturn(SummaryError("ERROR_OCCURRED", out.err,
                                                            Len(content.s)))],
              log |-> Append(log, Call("llm", content.s, out))]

summarize_enter ==
    /\ op = "summarizing"
    /\ run.stack # <<>>
    /\ Top.fn = "summarize" /\ Top.pc = "entry"
    /\ run' = summarize_enter_r.run
    /\ log' = summarize_enter_r.log
    /\ UNCHANGED <<op, arg, ret, exc, objectVars>>

\* (a plausible slip: the handler does not catch RecursionError)
summarize_after_long_Uncaught(frame, rv) == rv

\* summarize, lines 150 and 171-180: what it hands back when
\* _summarize_long_content returned or raised
summarize_after_long(frame, rv) ==
    IF rv.kind = "raise"
    THEN RvReturn(SummaryError("ERROR_OCCURRED", rv.e, Len(frame.content.s)))
    ELSE rv

summarize_resume ==
    /\ op = "summarizing"
    /\ run.stack # <<>>
    /\ Top.fn = "summarize" /\ Top.pc = "wait"
    /\ run.rv.kind # "none"
    /\ run' = [run EXCEPT !.stack = Popped, !.rv = summarize_after_long(Top, run.rv)]
    /\ UNCHANGED <<callVars, objectVars>>

\* _summarize_long_content, lines 191-193 and 200-219: the next chunk is
\* summarized, or the summaries are joined and summarized or returned
long_content_loop_r ==
    LET combined_summary == join(Top.summaries) IN
    IF Top.chunks # <<>>
    THEN [run EXCEPT !.stack =
             Append(Popped, [Top EXCEPT !.pc = "chunk", !.chunks = Tail(Top.chunks)])
             \o <<Frame("summarize", "entry", PyStr(Head(Top.chunks)), <<>>, <<>>)>>]
    ELSE IF Len(combined_summary) > ChunkSize
    THEN [run EXCEPT !.stack =
             Append(Popped, [Top EXCEPT !.pc = "final"])
             \o <<Frame("summarize", "entry", PyStr(combined_summary), <<>>, <<>>)>>]
    ELSE [run EXCEPT !.stack = Popped,
             !.rv = RvReturn(SummaryOk(combined_summary, Len(Top.content)))]

long_content_loop ==
    /\ op = "summarizing"
    /\ run.stack # <<>>
    /\ Top.fn = "_summarize_long_content" /\ Top.pc = "loop"
    /\ run' = long_content_loop_r
    /\ UNCHANGED <<callVars, objectVars>>

\* _summarize_long_content, lines 195-198 and 205-206: a call of summarize
\* came back
long_content_resume_r ==
    IF run.rv.kind = "raise" THEN [run EXCEPT !.stack = Popped]
    ELSE IF Top.pc = "chunk"
    THEN [run EXCEPT !.rv = NoRv,
             !.stack = Append(Popped,
                 [Top EXCEPT !.pc = "loop",
                             !.summaries =
                                 IF run.rv.val.success
                                 THEN Append(Top.summaries, run.rv.val.summary)
                                 ELSE Top.summaries])]
    ELSE [run EXCEPT !.stack = Popped,
             !.rv = RvReturn(SummaryOk(
                        IF run.rv.val.has_summary THEN run.rv.val.summary
                        ELSE join(Top.summaries), Len(Top.content)))]

long_content_resume ==
    /\ op = "summarizing"
    /\ run.stack # <<>>
    /\ Top.fn = "_summarize_long_content" /\ Top.pc \in {"chunk", "final"}
    /\ run.rv.kind # "none"
    /\ run' = long_content_resume_r
    /\ UNCHANGED <<callVars, objectVars>>

\* the outermost summarize hands its result to the caller
summarize_return ==
    /\ op = "summarizing"
    /\ run.stack = <<>>
    /\ run.rv.kind # "none"
    /\ op' = "summarize"
    /\ ret' = run.rv.val
    /\ exc' = run.rv.e
    /\ run' = NoRun
    /\ UNCHANGED <<arg, log, objectVars>>

\* ------------------------------------------------------------ specification
Init ==
    /\ op = "idle"
    /\ arg = PyNone
    /\ log = <<>>
    /\ ret = NoRet
    /\ exc = "none"
    /\ max_search_results = DefaultMaxSearchResults
    /\ vectorstore = [a \in RagAgents |-> NoStore]
    /\ qa_chain = [a \in RagAgents |-> NoChain]
    /\ graph = NewGraph
    /\ query_history = <<>>
    /\ memory = <<>>
    /\ requests = 0
    /\ run = NoRun

\* The scripts are single-threaded and synchronous: the caller takes the
\* result of one request before it makes the next.
next_request ==
    /\ op \notin {"idle", "summarizing"}
    /\ op' = "idle"
    /\ arg' = PyNone
    /\ log' = <<>>
    /\ ret' = NoRet
    /\ exc' = "none"
    /\ UNCHANGED agentVars

\* One specification per agent class: the agents are separate objects in
\* separate scripts and share nothing.
NextText ==
    \/ next_request
    \/ explain_topic
    \/ summarize
    \/ translate
    \/ classify
    \/ extract
    \/ batch_summarize
    \/ batch_translate
    \/ extract_batch
SpecText == Init /\ [][NextText]_vars

NextWeb == next_request \/ search_with_fallback
SpecWeb == Init /\ [][NextWeb]_vars

NextSQL == next_request \/ query_direct_sql
SpecSQL == Init /\ [][NextSQL]_vars

NextRAG == next_request \/ create_vectorstore \/ setup_qa_chain \/ rag_query
SpecRAG == Init /\ [][NextRAG]_vars

NextShared == next_request \/ build_graph_from_text \/ kg_query \/ sql_query
SpecShared == Init /\ [][NextShared]_vars

NextFact == next_request \/ search_information \/ fact_check
SpecFact == Init /\ [][NextFact]_vars

\* the fact-check agent's parts, called on their own, for agents built with
\* any max_search_results
NextFactParts ==
    \/ next_request
    \/ SimplifiedFactCheckAgent_init
    \/ call_generate_search_queries
    \/ call_collect_evidence
    \/ call_parse_analysis_response
SpecFactParts == Init /\ [][NextFactParts]_vars

\* a summarize call, one call or return at a time
NextSummarize ==
    \/ next_request
    \/ summarize_call
    \/ summarize_enter
    \/ summarize_resume
    \/ long_content_loop
    \/ long_content_resume
    \/ summarize_return
SpecSummarize == Init /\ [][NextSummarize]_vars

\* the interpreter runs a started call on: each step that can be taken is
\* taken (a new request need not come)
SummarizeRuns ==
    summarize_enter \/ summarize_resume \/ long_content_loop
    \/ long_content_resume \/ summarize_return
SpecSummarizeFair == SpecSummarize /\ WF_vars(SummarizeRuns)

Next ==
    NextSummarize \/ NextText \/ NextRAG \/ NextShared \/ NextWeb \/ NextSQL \/ NextFact
    \/ NextFactParts

Spec == Init /\ [][Next]_vars

\* ------------------------------------------------------------------- claims
\* an argument that is an empty string, a whitespace-only string or no string
InvalidText(v) == ~isinstance_str(v) \/ \A i \in 1..Len(v.s) : v.s[i] \in Whitespace

\* C1: explain_topic called with a topic that is an empty string, a
\* whitespace-only string or not a string returns the fixed message
\* TOPIC_EMPTY_OR_INVALID, and the model chain is not invoked in that call.
C1_InvalidTopicFixedMessage ==
    (op = "explain_topic" /\ InvalidText(arg)) =>
        /\ exc = "none"
        /\ ret = Msg("TOPIC_EMPTY_OR_INVALID")
        /\ log = <<>>

C1_Witness ==
    /\ op = "explain_topic"
    /\ arg = PyStr(<<" ", " ">>)
    /\ ret = Msg("TOPIC_EMPTY_OR_INVALID")

\* C2: search_with_fallback tries the strategies in the fixed order API
\* backend, HTML backend, simplified query, and then gives up with the fixed
\* apology: a later search is made only after every earlier one raised or
\* returned a result of at most 10 characters (blanks at the ends not
\* counted), and the first search with a usable result ends the call, its
\* result being the answer.
StrategyOf(k, c) ==
    /\ c.svc = "DuckDuckGoSearchRun.run"
    /\ k = 1 => (c.input.backend = "api" /\ c.input.query = strip(arg.s))
    /\ k = 2 => (c.input.backend = "html" /\ c.input.query = strip(arg.s))
    /\ k = 3 => (c.input.backend = "api" /\ c.input.query = simplified_query(arg.s))

Unusable(out) == ~out.ok \/ Len(strip(out.val)) <= QualityMin

C2_FallbackOrder ==
    (op = "search_with_fallback" /\ ~InvalidText(arg)) =>
        /\ exc = "none"
        /\ Len(log) \in 1..3
        /\ \A k \in 1..Len(log) : StrategyOf(k, log[k])
        /\ \A k \in 1..Len(log) : k < Len(log) => Unusable(log[k].out)
        /\ IF Unusable(log[Len(log)].out)
           THEN ret = FinalMsg("SEARCH_APOLOGY")
           ELSE ret = FinalAnswer(log[Len(log)].out.val)
        /\ (ret = FinalMsg("SEARCH_APOLOGY") /\ Len(log) = 2) =>
               simplified_query(arg.s) \in {<<>>, arg.s}

\* the third strategy answered after the first raised and the second
\* returned too little
C2_Witness ==
    /\ op = "search_with_fallback"
    /\ Len(log) = 3
    /\ ~log[1].out.ok
    /\ log[2].out.ok
    /\ ret = FinalAnswer(log[3].out.val)

\* C3: query_direct_sql dispatches by keyword.  If the lower-cased question
\* contains (the lower-cased form of) at least one key of sql_patterns, the
\* SQL of the first such key in declaration order is run against the
\* database, the result has method "direct_sql" and the agent is not
\* invoked, also when the direct SQL raises.  The agent is invoked exactly
\* when no key matches, and then the result has method "agent".
KeyFound(q, i) == Contains(lower(q), lower(sql_patterns[i].pattern))
AgentInvoked == \E k \in 1..Len(log) : log[k].svc = "agent_executor.invoke"

C3_KeywordDispatch ==
    (op = "query_direct_sql" /\ isinstance_str(arg)) =>
        /\ exc = "none"
        /\ \A i \in 1..Len(sql_patterns) :
             (KeyFound(arg.s, i) /\ \A j \in 1..(i - 1) : ~KeyFound(arg.s, j)) =>
                /\ Len(log) = 1
                /\ log[1].svc = "pd.read_sql_query"
                /\ log[1].input = sql_patterns[i].sql
                /\ ret.method = "direct_sql"
                /\ ~AgentInvoked
        /\ AgentInvoked <=> (\A i \in 1..Len(sql_patterns) : ~KeyFound(arg.s, i))
        /\ AgentInvoked => ret.method = "agent"

\* a question holding two keys, the later-declared one first in the text,
\* whose direct SQL raised
C3_Witness ==
    /\ op = "query_direct_sql"
    /\ isinstance_str(arg)
    /\ KeyFound(arg.s, 8) /\ KeyFound(arg.s, 2)
    /\ Contains(arg.s, <<"A", "l", "i", "c", "e", "e">>)
    /\ log[1].input = "users_engineering"
    /\ ~log[1].out.ok
    /\ ret.method = "direct_sql" /\ ~ret.success

\* C4: search_information, for a non-empty query (one the method's own
\* emptiness test lets through: a string with a non-blank character), asks
\* the "api" backend first and the "html" backend only if the api backend
\* raised; it returns success=True with method naming the backend that
\* answered and that backend's answer as the result, and success=False with
\* an empty results list only when both backends raised.  It never raises,
\* whatever the argument.
C4_SearchInformationFallback ==
    (op = "search_information") =>
        /\ exc = "none"
        /\ ~InvalidText(arg) =>
            /\ Len(log) \in 1..2
            /\ log[1].input = [backend |-> "api", query |-> arg.s]
            /\ Len(log) = 2 =>
                 (~log[1].out.ok /\ log[2].input = [backend |-> "html", query |-> arg.s])
            /\ ret.success =>
                 /\ log[Len(log)].out.ok
                 /\ ret.method = log[Len(log)].input.backend
                 /\ ret.results = <<log[Len(log)].out.val>>
            /\ ~ret.success =>
                 /\ ret.results = <<>>
                 /\ Len(log) = 2
                 /\ \A k \in 1..2 : ~log[k].out.ok

\* the html backend answered after the api backend raised
C4_Witness ==
    /\ op = "search_information"
    /\ Len(log) = 2
    /\ ret.success
    /\ ret.method = "html"

\* C9: fact_check called with a claim that is empty, whitespace-only or not
\* a string returns a FactCheckResult with status FAILED, verdict
\* INSUFFICIENT, confidence_score 0.0 and empty evidence and sources,
\* without any search or model call and without raising.
C9_InvalidClaimFailedResult ==
    (op = "fact_check" /\ InvalidText(arg)) =>
        /\ exc = "none"
        /\ log = <<>>
        /\ ret.status = "FAILED"
        /\ ret.verdict = "INSUFFICIENT"
        /\ ret.confidence_score = 0
        /\ ret.evidence = <<>>
        /\ ret.sources = <<>>

\* --- stateless text agents
Blank(v) == isinstance_str(v) /\ \A i \in 1..Len(v.s) : v.s[i] \in Whitespace

\* C10: summarize, translate and classify, given an empty or whitespace-only
\* text, return their error record (success False or error field set, and no
\* summary, translation or category), and the model is not invoked in that
\* call.
C10_BlankTextErrorRecord ==
    (op \in {"summarize", "translate", "classify"} /\ Blank(arg)) =>
        /\ exc = "none"
        /\ log = <<>>
        /\ op = "summarize" =>
            /\ ~ret.success
            /\ ~ret.has_summary
            /\ ret.error = "CONTENT_EMPTY_OR_INVALID"
        /\ op = "translate" =>
            /\ ret.error = "TEXT_EMPTY"
            /\ ret.translated_text = <<>>
        /\ op = "classify" =>
            /\ ret.error = "TEXT_EMPTY"
            /\ ret.category = "None"

C10_Witness ==
    /\ op = "translate"
    /\ arg = PyStr(<<" ", " ">>)
    /\ ret.error = "TEXT_EMPTY"
    /\ log = <<>>

BatchOps == {"batch_summarize", "batch_translate", "extract_batch"}
AllStrings(texts) == \A i \in 1..Len(texts) : isinstance_str(texts[i])

\* the inputs of the model calls that the elements from i on make, in order
RECURSIVE ExpectedInputs(_, _, _)
ExpectedInputs(batch_op, texts, i) ==
    IF i > Len(texts) THEN <<>>
    ELSE (CASE batch_op = "extract_batch" -> <<texts[i].s>>
            [] batch_op = "batch_translate" ->
                IF Blank(texts[i]) THEN <<>>
                ELSE <<strip(texts[i].s), strip(texts[i].s)>>)
         \o ExpectedInputs(batch_op, texts, i + 1)

\* C8: extract_batch, batch_summarize and batch_translate, given a list of
\* strings, go through it in order and return exactly one result per element
\* in input order, also when elements fail: result i belongs to input i
\* (original_text, content_length, the model call it came from), and
\* text_index / batch_index, where written, is i.
C8_BatchOneResultPerInput ==
    (op \in BatchOps /\ AllStrings(arg)) =>
        /\ exc = "none"
        /\ Len(ret) = Len(arg)
        /\ op = "batch_summarize" =>
            \A i \in 1..Len(arg) :
                /\ ret[i].batch_index = i - 1
                /\ ret[i].content_length = IF Blank(arg[i]) THEN 0 ELSE Len(arg[i].s)
        /\ op = "batch_translate" =>
            /\ \A i \in 1..Len(arg) : ret[i].original_text = arg[i]
            /\ [j \in 1..Len(log) |-> log[j].input] = ExpectedInputs(op, arg, 1)
        /\ op = "extract_batch" =>
            /\ [j \in 1..Len(log) |-> log[j].input] = ExpectedInputs(op, arg, 1)
            /\ \A i \in 1..Len(arg) :
                /\ ret[i].text_index = i - 1
                /\ (ret[i].error = "none") = log[i].out.ok
                /\ ret[i].e = log[i].out.err

C8_Witness ==
    /\ op = "batch_summarize"
    /\ Len(arg) = 2
    /\ AllStrings(arg)
    /\ Len(ret) = 2
    /\ ret[1].error = "ERROR_OCCURRED"
    /\ ret[2].success
    /\ ret[2].batch_index = 1

\* C6: every public operation catches whatever exception occurs while it
\* runs, an argument of the wrong type included: no exception reaches the
\* caller, and the result embeds the exception text.
C6_NoExceptionPropagates ==
    (op # "idle") =>
        /\ exc = "none"
        /\ (op = "classify" /\ log # <<>> /\ ~log[1].out.ok) => ret.e = log[1].out.err

\* --- RAG agents
\* C7: in RAGSystem, MultiDocRAGAgent and PDFQAAgent, over any sequence of
\* calls, qa_chain set implies vectorstore set; the vector store changes only
\* in a create_vectorstore given a non-empty list of chunks, and the QA chain
\* only in a setup_qa_chain made while a vector store exists; and query with
\* a question that is a non-blank string, made while no QA chain is set,
\* returns the fixed not-ready answer with empty sources and invokes nothing.
C7_StagesInOrder ==
    /\ [](\A a \in RagAgents : qa_chain[a].set => vectorstore[a].set)
    /\ [](\A a \in RagAgents :
            (op = "rag_query" /\ arg.agent = a /\ ~InvalidText(arg.v) /\ ~qa_chain[a].set) =>
                /\ exc = "none"
                /\ ret = Answer_(NotReady(a), <<>>)
                /\ log = <<>>)
    /\ [][\A a \in RagAgents :
            /\ vectorstore'[a] # vectorstore[a] =>
                /\ op' = "create_vectorstore"
                /\ arg'.agent = a
                /\ arg'.v.t = "list"
                /\ arg'.v.s # <<>>
                /\ vectorstore'[a] = Store(arg'.v.s)
            /\ qa_chain'[a] # qa_chain[a] =>
                /\ op' = "setup_qa_chain"
                /\ arg'.agent = a
                /\ vectorstore[a].set
                /\ qa_chain'[a].set]_vars

C7_Witness ==
    /\ op = "rag_query"
    /\ arg.agent = "PDFQAAgent"
    /\ arg.v = PyStr(<<"a">>)
    /\ vectorstore["PDFQAAgent"].set
    /\ ~qa_chain["PDFQAAgent"].set
    /\ ret = Answer_(Msg("SYSTEM_NOT_READY"), <<>>)

\* --- state kept between requests
\* what a new agent object returns for the request in arg, given the outcomes
\* of the external calls recorded in log
FreshSqlResult ==
    LET out == IF log = <<>> THEN Fail("none") ELSE log[1].out IN
    sql_query_result(<<>>, <<>>, arg, out, out).ret
FreshKgResult == kg_query_result(NewGraph, arg, IF log = <<>> THEN Fail("none") ELSE log[1].out).ret

\* C5 (as stated): the result of a request is determined by its input and
\* the external responses alone, whatever requests came before on the same
\* object: KnowledgeGraphAgent.query and OptimizedSQLAgent.query return what
\* a new object would return.
C5_NoSharedState ==
    /\ (op = "kg_query") => ret = FreshKgResult
    /\ (op = "sql_query" /\ exc = "none") => ret = FreshSqlResult

\* C5 (amended): OptimizedSQLAgent.query returns what a new object would
\* return, whatever queries came before (the history and the memory are
\* written and never read); KnowledgeGraphAgent.query returns what its input,
\* the model's answer and the graph left by the earlier build_graph_from_text
\* calls determine, and on an empty graph what a new object would return;
\* the graph changes only in build_graph_from_text, the history and the
\* memory only in query.
C5_StateOnlyInGraph ==
    /\ []((op = "sql_query" /\ exc = "none") => ret = FreshSqlResult)
    /\ []((op = "kg_query" /\ log # <<>>) =>
            /\ ret = kg_query_result(graph, arg, log[1].out).ret
            /\ graph = NewGraph => ret = FreshKgResult)
    /\ [][/\ graph' # graph => op' = "build_graph_from_text"
          /\ (query_history' # query_history \/ memory' # memory) => op' = "sql_query"]_vars

C5_Witness ==
    /\ op = "sql_query"
    /\ Len(query_history) = 2
    /\ query_history[1].question = query_history[2].question
    /\ query_history[1].success
    /\ ~query_history[2].success
    /\ ret = query_history[2]

\* ---------------------------------------------------------------- C11
HasWord(text, verdict) ==
    \E k \in 1..Len(VerdictWords) :
        /\ VerdictWords[k].verdict = verdict
        /\ \E w \in VerdictWords[k].words : Contains(text, w)

\* C11: _parse_analysis_response maps a VERDICT text by its keyword lists:
\* a text containing one of the false-words yields the verdict "false", a
\* text containing one of the true-words yields the verdict "true".
C11_VerdictByKeywordLists ==
    op = "_parse_analysis_response" =>
        /\ HasWord(strip(arg.verdict_text), "FALSE") => ret.verdict = "FALSE"
        /\ HasWord(strip(arg.verdict_text), "TRUE") => ret.verdict = "TRUE"

\* ---------------------------------------------------------------- C12
\* the searches of the request that returned a result
SuccessfulSearches ==
    Cardinality({i \in 1..Len(log) :
                    log[i].svc = "DuckDuckGoSearchRun.run" /\ log[i].out.ok})

\* C12: for a valid claim, when no exception was caught, fact_check's status
\* is INSUFFICIENT exactly when no search succeeded or the analysed
\* confidence is below 0.3, and SUCCESS otherwise; a valid claim gets the
\* status FAILED only from the except branch, after an exception.
C12_StatusRule ==
    (op = "fact_check" /\ ~InvalidText(arg) /\ exc = "none") =>
        IF ret.reasoning = "PROCESSING_ERROR"
        THEN ret.status = "FAILED" /\ ret.e # "none"
        ELSE /\ ret.status \in {"INSUFFICIENT", "SUCCESS"}
             /\ ret.status = "INSUFFICIENT"
                    <=> (SuccessfulSearches = 0 \/ ret.confidence_score < 30)

C12_Witness ==
    /\ op = "fact_check"
    /\ ~InvalidText(arg)
    /\ ret.status = "INSUFFICIENT"
    /\ SuccessfulSearches = 0
    /\ ret.confidence_score = 85

\* ---------------------------------------------------------------- C13
HasDigit(claim) == \E i \in 1..Len(claim) : claim[i] \in Digits

\* the queries the request's searches were run with
SearchedQueries ==
    {log[i].input.query : i \in {k \in 1..Len(log) :
                                    log[k].svc = "DuckDuckGoSearchRun.run"}}

\* C13: when the claim contains a digit, generate_search_queries also returns
\* the keyword query of each main topic the claim mentions, and
\* collect_evidence searches it, whatever max_search_results the agent was
\* constructed with.
C13_KeywordQueriesIncluded ==
    /\ (op = "generate_search_queries" /\ HasDigit(arg.s)
        /\ Contains(arg.s, KwThai))
            => \E i \in 1..Len(ret) : ret[i] = <<"P", "o", "p">>
    /\ (op = "collect_evidence" /\ HasDigit(arg.s) /\ Contains(arg.s, KwThai))
            => <<"P", "o", "p">> \in SearchedQueries

\* ---------------------------------------------------------------- C14
\* C14: every FactCheckResult that fact_check returns has a confidence_score
\* between 0.0 and 1.0, whatever number the model wrote after CONFIDENCE:.
C14_ConfidenceInRange ==
    (op = "fact_check" /\ exc = "none") =>
        0 <= ret.confidence_score /\ ret.confidence_score <= 100

\* the model wrote 85.5 and the caller got the failed result with 0.0
C14_Witness ==
    /\ op = "fact_check"
    /\ exc = "none"
    /\ log # <<>>
    /\ log[Len(log)].svc = "critic_llm.invoke"
    /\ log[Len(log)].out.ok
    /\ log[Len(log)].out.val.confidence = <<"8", "5", ".", "5">>
    /\ ret.confidence_score = 0
    /\ ret.status = "FAILED"

\* ---------------------------------------------------------------- C15
IsLabelLine(line) ==
    \E label \in {L_subject, L_relation, L_object} : label_match(label, line)

\* the triplets the claim lets the lines from i on add: a label line is
\* read as a label only; "subject:" opens a triplet, "relation:" extends a
\* triplet that holds a subject only, "object:" closes a triplet that holds
\* subject and relation; any other line with three comma parts is a triplet
RECURSIVE ClaimedTriplets(_, _, _)
ClaimedTriplets(lines, i, pending) ==
    IF i > Len(lines) THEN <<>>
    ELSE LET line == lines[i]
             parts == comma_parts(clean_triplet_line(line))
         IN  IF label_match(L_subject, line)
             THEN ClaimedTriplets(lines, i + 1, <<after_colon(line)>>)
             ELSE IF label_match(L_relation, line)
             THEN ClaimedTriplets(lines, i + 1,
                      IF Len(pending) = 1 THEN Append(pending, after_colon(line))
                      ELSE <<>>)
             ELSE IF label_match(L_object, line)
             THEN IF Len(pending) = 2
                  THEN <<Append(pending, after_colon(line))>>
                       \o ClaimedTriplets(lines, i + 1, <<>>)
                  ELSE ClaimedTriplets(lines, i + 1, pending)
             ELSE IF Len(parts) = 3
             THEN <<parts>> \o ClaimedTriplets(lines, i + 1, <<>>)
             ELSE ClaimedTriplets(lines, i + 1, pending)

RECURSIVE AddAll(_, _)
AddAll(g, triplets) ==
    IF triplets = <<>> THEN g
    ELSE AddAll(add_edge(g, triplets[1][1], triplets[1][3], triplets[1][2]),
                Tail(triplets))

\* C15: build_graph_from_text adds a label-format edge exactly for a
\* "subject:" line followed by a "relation:" line and an "object:" line; a
\* "relation:" line without a pending subject, an "object:" line without
\* pending subject and relation, and a repeated "relation:" line add
\* nothing; a line that starts with a label is never added as a
\* comma-separated triplet.
C15_LabelLinesAddLabelEdgesOnly ==
    [][(op' = "build_graph_from_text" /\ log' # <<>> /\ log'[1].out.ok)
          => graph' = AddAll(graph,
                 ClaimedTriplets(stripped_lines(log'[1].out.val), 1, <<>>))]_vars

\* ---------------------------------------------------------------- C16
\* the node KnowledgeGraphAgent.query matched for the model's answer (lines
\* 78-92); <<>> stands for None
MatchedNode(g, out) ==
    LET node_raw == strip(out.val)
        after == node_after_think(stripped_lines(node_raw), 1, FALSE)
        node == IF after # <<>> THEN after ELSE node_raw
        hits == {i \in 1..Len(g.nodes) : Contains(lower(g.nodes[i]), lower(node))}
    IN IF hits = {} THEN <<>> ELSE g.nodes[Min(hits)]

EdgeSet(g) == {g.edges[i] : i \in 1..Len(g.edges)}

\* C16: every triplet build_graph_from_text printed as added stays
\* retrievable: no later step removes or rewrites it, each build holds the
\* triplets it printed, and a query that matches a subject node returns
\* every triplet of that subject -- also two triplets with the same subject
\* and object and different relations.
C16_AddedTripletsStayRetrievable ==
    /\ [][EdgeSet(graph) \subseteq EdgeSet(graph')]_vars
    /\ [][(op' = "build_graph_from_text" /\ log' # <<>> /\ log'[1].out.ok)
            => \A k \in 1..Len(printed_triplets(stripped_lines(log'[1].out.val),
                                                1, <<>>)) :
                 LET t == printed_triplets(stripped_lines(log'[1].out.val),
                                           1, <<>>)[k]
                 IN [u |-> t[1], rel |-> t[2], v |-> t[3]] \in EdgeSet(graph')]_vars
    /\ [](( op = "kg_query" /\ log # <<>> /\ log[1].out.ok
            /\ MatchedNode(graph, log[1].out) # <<>>)
          => \A e \in EdgeSet(graph) :
                e.u = MatchedNode(graph, log[1].out)
                    => /\ ret.kind = "answers"
                       /\ \E i \in 1..Len(ret.text) : ret.text[i] = e)

\* ---------------------------------------------------------------- C17
\* C17: summarize terminates for every string content and every behaviour
\* of the model: a call that started reaches its return to the caller, also
\* when the summaries are not shorter than the chunks.
C17_SummarizeReturns ==
    (op = "summarizing" /\ isinstance_str(arg))
        ~> (op = "summarize" /\ exc = "none")

\* every summary was as long as a chunk, and the recursion went on until the
\* interpreter's limit ended it
C17_Witness ==
    /\ op = "summarizing"
    /\ \A i \in 1..Len(log) : log[i].out = Ok(JsonText)
    /\ Depth = RecursionLimit
    /\ run.rv = RvRaise("RecursionError")

\* ---------------------------------------------------------------- C18
\* C18: a result of summarize with success = True carries a summary that at
\* least one successful model call produced; when every chunk of a long
\* content fails, the result is not success = True with an empty summary.
C18_SuccessHasSummary ==
    (op = "summarize" /\ exc = "none" /\ ret.success) =>
        /\ \E i \in 1..Len(log) : log[i].out.ok
        /\ ret.summary # <<>>

====
